---- MODULE Spec2Model ----
(***************************************************************************)
(* PolymarketRouter (router/polymarket): the wallet-linking state machine  *)
(* (linkUser -> linkUserWithEoa / linkUserWithSafe ->                      *)
(* deriveOrCreateApiCredentials), the two in-memory stores, and           *)
(* placeOrder (signer and credential checks, signature type and funder,    *)
(* signing, submission, classification of the server's response),          *)
(* cancelOrder and claimWinnings (request and response classification),    *)
(* the escrow module's USDC approvals (checkAllowances, approveEscrow,      *)
(* hasRequiredApprovals), and the CTF redeem helpers                       *)
(* (buildRedeemPositionsCalldata, buildRedeemPositionsTx,                  *)
(* signRedeemPositionsTx).                                                 *)
(*                                                                         *)
(* Spec      linking of users, one call at a time                          *)
(* SpecOrder placeOrder on top of the stores                               *)
(* SpecAll   all four operations, one call at a time                       *)
(* SpecRace  two linkUser calls pending at once                            *)
(* SpecStore the two stores across all operations, two users               *)
(* SpecEscrow escrow/approve: checkAllowances and approveEscrow            *)
(* SpecRedeem utils/ctf: building and signing redeemPositions              *)
(*                                                                         *)
(* Every async method is split at its await points: one action per         *)
(* awaited external call, taken when that call settles; the synchronous    *)
(* code up to the next await is part of the same action.                   *)
(***************************************************************************)
EXTENDS Integers, Sequences, FiniteSets, TLC

\* ----------------------------------------------------------------- bounds
MaxCalls == 2          \* router calls started in one behaviour (linking)
MaxOrderCalls == 3     \* router calls started in one behaviour (order placement)
MaxKeys == 2           \* API keys the exchange mints in one behaviour
MaxEnvChanges == 1     \* changes of chain / exchange state made by third parties
MaxAllCalls == 2       \* router calls started in one behaviour (all four operations)
MaxRaceCalls == 2      \* linkUser calls started in one behaviour (concurrent linking)
MaxEscrowCalls == 2    \* approveEscrow / checkAllowances calls started in one behaviour
MaxStoreCalls == 3     \* router calls started in one behaviour (the two stores)
MaxRedeemCalls == 2    \* redeem helper calls started in one behaviour

\* ------------------------------------------------------------ input sets
Users == {"u1", "u2"}
Addresses == {"a1", "a2"}                 \* signer (EOA) addresses
Procs == {"p1", "p2"}                     \* concurrently pending promises
Spenders == {"ctfExchange", "negRiskCtfExchange", "negRiskAdapter"}
OptBool == {"true", "false", "omitted"}   \* an optional boolean parameter
WalletTypes == {"eoa", "safe", "omitted"}
OtherFunder == "f9"                       \* a funderAddress that is nobody's Safe

KeyNames == <<"k1", "k2", "k3", "k4">>
SecretNames == <<"s1", "s2", "s3", "s4">>
PassNames == <<"p1", "p2", "p3", "p4">>

\* --------------------------------------------------------- pure helpers
\* Destructuring default `x = d`: the default applies when x is undefined.
WithDefault(v, d) == IF v = "omitted" THEN d ELSE v = "true"

\* JavaScript truthiness of a string ('' and undefined are both modelled "").
Truthy(s) == s # ""

\* utils/safe.js deriveSafeAddress: CREATE2 address of the signer's Safe, a
\* deterministic injective function of the owner address (single chain id).
deriveSafeAddress(eoaAddress) ==
    CASE eoaAddress = "a1" -> "safe1"
      [] eoaAddress = "a2" -> "safe2"

SafeAddresses == {deriveSafeAddress(a) : a \in Addresses}
AllAddresses == Addresses \cup SafeAddresses \cup {OtherFunder}

\* linkUser: const walletType = params.walletType || 'eoa'
linkUserWalletType(walletType) ==
    IF walletType = "omitted" THEN "eoa" ELSE walletType

\* An error value: message plus the message of the error it wraps ("" if none).
Err(msg, cause) == [msg |-> msg, cause |-> cause]
NoError == Err("", "")

\* ClobClient ApiKeyCreds, as returned by deriveApiKey / createApiKey.
ApiKeyCreds(k, s, p) == [isNull |-> FALSE, key |-> k, secret |-> s, passphrase |-> p]
NullApiKeyCreds == [isNull |-> TRUE, key |-> "", secret |-> "", passphrase |-> ""]
MintedKey(n) == ApiKeyCreds(KeyNames[n], SecretNames[n], PassNames[n])
\* Results with a field missing (undefined is modelled as '').
IncompleteApiKeyCreds ==
    { ApiKeyCreds("", "", ""), ApiKeyCreds("", "sx", "px"),
      ApiKeyCreds("kx", "", "px"), ApiKeyCreds("kx", "sx", "") }
\* The client maps an error envelope of the exchange to undefined fields.
ErrorEnvelopeCreds == ApiKeyCreds("", "", "")
ApiKeyCredsComplete(v) ==
    ~v.isNull /\ v.key # "" /\ v.secret # "" /\ v.passphrase # ""

\* deriveOrCreateApiCredentials: the validity test applied to the derive result.
DerivedInvalidMutNoPassphrase(apiKeyCreds) ==
    \/ apiKeyCreds.isNull
    \/ ~Truthy(apiKeyCreds.key)
    \/ ~Truthy(apiKeyCreds.secret)
DerivedInvalid(apiKeyCreds) ==
    \/ apiKeyCreds.isNull
    \/ ~Truthy(apiKeyCreds.key)
    \/ ~Truthy(apiKeyCreds.secret)
    \/ ~Truthy(apiKeyCreds.passphrase)

\* linkUserWith*: const credentials = {apiKey: apiKeyCreds.key, ...}
ToCredentialsMutMerged(apiKeyCreds) ==
    [apiKey |-> apiKeyCreds.key, apiSecret |-> apiKeyCreds.secret,
     apiPassphrase |-> IF apiKeyCreds.passphrase # ""
                       THEN PassNames[1] ELSE apiKeyCreds.passphrase]
ToCredentialsMutSwapped(apiKeyCreds) ==
    [apiKey |-> apiKeyCreds.key, apiSecret |-> apiKeyCreds.passphrase,
     apiPassphrase |-> apiKeyCreds.secret]
ToCredentials(apiKeyCreds) ==
    [apiKey |-> apiKeyCreds.key,
     apiSecret |-> apiKeyCreds.secret,
     apiPassphrase |-> apiKeyCreds.passphrase]
NoCredentials == [apiKey |-> "", apiSecret |-> "", apiPassphrase |-> ""]

CredentialsComplete(c) ==
    Truthy(c.apiKey) /\ Truthy(c.apiSecret) /\ Truthy(c.apiPassphrase)

\* Map.set
MapSet(m, k, v) == [x \in (DOMAIN m) \cup {k} |-> IF x = k THEN v ELSE m[x]]
EmptyMap == [x \in {} |-> NoCredentials]
\* Map.delete (only the exchange and the history use it; the router never deletes)
MapRemove(m, k) == [x \in (DOMAIN m) \ {k} |-> m[x]]


\* ------------------------------------------------------------------ state
VARIABLES
    apiKey,             \* PolymarketRouter.apiKey is set (config.apiKey)
    privyClient,        \* PolymarketRouter.privyClient is set (config.privy)
    userCredentials,    \* Map<userId, PolymarketCredentials>
    userSafeAddresses,  \* Map<userId, string>
    run,                \* per pending promise: position, parameters, locals
    safeCode,           \* chain: Safe addresses that have code (are deployed)
    allowance,          \* chain: spenders approved by each address
    clobApiKeys,        \* exchange: the API key registered for a signing key
    minted,             \* exchange: number of API keys minted so far
    started,            \* router calls started so far
    envChanges,         \* third-party changes of chain / exchange state so far
    uuids,              \* crypto.randomUUID(): identifiers handed out so far
    lastLink,           \* history: signer -> credentials of its last completed link,
                        \* while the exchange has not changed since
    usdcAllowance,      \* chain: USDC allowance of the wallet to each spender (uint256)
    usdcTxs,            \* chain: transactions the wallet has submitted, by hash
    escrow,             \* the pending checkAllowances / approveEscrow call
    redeem              \* the pending buildRedeemPositionsTx / signRedeemPositionsTx call

vars == <<apiKey, privyClient, userCredentials, userSafeAddresses, run, safeCode,
          allowance, clobApiKeys, minted, started, envChanges, uuids, lastLink,
          usdcAllowance, usdcTxs, escrow, redeem>>

routerVars == <<apiKey, privyClient>>
storeVars == <<userCredentials, userSafeAddresses>>
chainVars == <<safeCode, allowance>>
clobVars == <<clobApiKeys, minted>>
escrowVars == <<usdcAllowance, usdcTxs, escrow>>
ctfVars == <<redeem>>
\* everything of the router and its collaborators
polymarketVars == <<apiKey, privyClient, userCredentials, userSafeAddresses, run,
                    safeCode, allowance, clobApiKeys, minted, uuids, lastLink>>

NoResult ==
    [kind |-> "none", error |-> NoError, credentials |-> NoCredentials,
     safeAddress |-> "", signerAddress |-> "", safeDeployed |-> FALSE,
     allowancesSet |-> 0, orderStatus |-> ""]

\* placeOrder: the order signed by the ClobClient and the request sent.
NoOrder == [maker |-> "", signer |-> "", side |-> "", signatureType |-> 0, signed |-> FALSE]
NoRequest == [id |-> 0, clientOrderId |-> 0, signedOrder |-> NoOrder,
              credentials |-> NoCredentials]

\* history: the credentials a run may expect to derive (valid = FALSE: none)
NoBase == [valid |-> FALSE, viaCreate |-> FALSE, credentials |-> NoCredentials]

\* history: how a collaborator's call settled in this run
\* (an incomplete value is recorded as such, without its fields)
NoReply ==
    [settled |-> FALSE, threw |-> FALSE, complete |-> FALSE,
     value |-> NullApiKeyCreds, message |-> ""]
Seen(reply) ==
    LET complete == ~reply.threw /\ ApiKeyCredsComplete(reply.value) IN
    [settled |-> TRUE, threw |-> reply.threw, complete |-> complete,
     value |-> IF complete THEN reply.value ELSE NullApiKeyCreds,
     message |-> reply.message]

IdleRun ==
    [op |-> "none", pc |-> "idle",
     \* parameters
     userId |-> "", signer |-> "", walletType |-> "eoa",
     autoDeploySafe |-> "omitted", autoSetAllowances |-> TRUE,
     privyWalletId |-> FALSE,
     funderAddress |-> "", walletAddress |-> "", side |-> "",
     credentialsArg |-> FALSE,
     \* locals
     eoaAddress |-> "", safeAddress |-> "", safeDeployed |-> FALSE,
     allowancesSet |-> 0, checkedAddress |-> "",
     creds |-> NoCredentials, signatureType |-> 0, funder |-> "",
     signedOrder |-> NoOrder, request |-> NoRequest,
     \* external calls made so far, in order
     calls |-> <<>>,
     \* what the promise settled with
     result |-> NoResult,
     \* history: what the collaborators answered in this run
     hIsDeployed |-> "unknown", hDeployed |-> FALSE, hDeployReported |-> "",
     hMissing |-> {},
     hDerive |-> NoReply, hCreate |-> NoReply,
     hBase |-> NoBase,
     \* history: outcomes of signer.signTypedData in this run, in order, and
     \* the first error the signer rejected with
     hSigns |-> <<>>, hSignerError |-> NoError,
     \* history: the awaited external calls of this run that failed, in order
     hFailed |-> <<>>,
     \* cancelOrder / claimWinnings: the request sent ({} before it is built)
     cancelRequest |-> {}, claimRequest |-> {},
     \* history: the response the backend gave to this run's POST ({} if none)
     hResp |-> {}]

\* ------------------------------------------------- escrow/approve: values
\* A uint256 / bigint is written as its base-10^6 digits, most significant
\* first, without leading zero digits (zero is <<0>>).
MaxUint256 ==
    <<115792, 89237, 316195, 423570, 985008, 687907, 853269, 984665, 640564,
      39457, 584007, 913129, 639935>>

\* a > b on such values
GreaterThan(a, b) ==
    IF Len(a) # Len(b) THEN Len(a) > Len(b)
    ELSE \E i \in 1..Len(a) : a[i] > b[i] /\ \A j \in 1..(i - 1) : a[j] = b[j]

\* BigNumber.prototype.toString(): the decimal digits of the value.
Pad6(n) ==
    <<(n \div 100000) % 10, (n \div 10000) % 10, (n \div 1000) % 10,
      (n \div 100) % 10, (n \div 10) % 10, n % 10>>
RECURSIVE Flatten(_)
Flatten(value) ==
    IF value = <<>> THEN <<>> ELSE Pad6(Head(value)) \o Flatten(Tail(value))
RECURSIVE Strip(_)
Strip(digits) ==
    IF Len(digits) > 1 /\ Head(digits) = 0 THEN Strip(Tail(digits)) ELSE digits
toString(value) == Strip(Flatten(value))

\* BigInt(string): the value of a string of decimal digits.
RECURSIVE ValueOf(_)
ValueOf(digits) ==
    IF digits = <<>> THEN 0
    ELSE 10 * ValueOf(SubSeq(digits, 1, Len(digits) - 1)) + digits[Len(digits)]
RECURSIVE BigInt(_)
BigInt(digits) ==
    IF Len(digits) <= 6 THEN <<ValueOf(digits)>>
    ELSE BigInt(SubSeq(digits, 1, Len(digits) - 6))
            \o <<ValueOf(SubSeq(digits, Len(digits) - 5, Len(digits)))>>

\* BigInt(1e12): the number 1e12 is the integer 1000000000000.
UNLIMITED_THRESHOLD == BigInt(<<1, 0, 0, 0, 0, 0, 0, 0, 0, 0, 0, 0, 0>>)

\* const hasAllowance = allowanceBigInt > BigInt(1e12)
HasAllowanceMutAtOrAbove(allowanceBigInt) ==
    ~GreaterThan(UNLIMITED_THRESHOLD, allowanceBigInt)
HasAllowance(allowanceBigInt) == GreaterThan(allowanceBigInt, UNLIMITED_THRESHOLD)

\* The allowances the chain holds in a behaviour: none, one raw unit below
\* the threshold, the threshold, one above it, and the unlimited approval.
AllowanceValues ==
    { <<0>>, <<999999, 999999>>, <<1, 0, 0>>, <<1, 0, 1>>, MaxUint256 }

\* Contract addresses.
USDC_POLYGON == "usdc"
ESCROW_CONTRACT_POLYGON == "feeEscrow"
Entry(name, address) == [name |-> name, address |-> address]

\* Object.entries of the contract tables, in insertion order.
POLYMARKET_CONTRACTS ==
    << Entry("CTF Exchange", "ctfExchange"),
       Entry("Neg Risk CTF Exchange", "negRiskCtfExchange"),
       Entry("Neg Risk Adapter", "negRiskAdapter") >>
ALL_CONTRACTS_TO_APPROVE ==
    <<Entry("Fee Escrow", ESCROW_CONTRACT_POLYGON)>> \o POLYMARKET_CONTRACTS
EscrowSpenders == {ESCROW_CONTRACT_POLYGON} \cup Spenders

NoEscrowResult ==
    [kind |-> "none", error |-> NoError, allowances |-> EmptyMap,
     approved |-> <<>>, alreadyApproved |-> <<>>, txHashes |-> EmptyMap,
     value |-> FALSE]

\* history: the contracts of the last approveEscrow call that succeeded, while
\* nobody else has changed an allowance since that call began
NoPrev == [valid |-> FALSE, contracts |-> <<>>]

IdleEscrow ==
    [op |-> "none", pc |-> "idle",
     \* locals of checkAllowances: the entries iterated, the loop index, results
     contracts |-> <<>>, i |-> 0, results |-> EmptyMap,
     \* locals of approveEscrow
     needsApproval |-> <<>>, alreadyApproved |-> <<>>, approved |-> <<>>,
     txHashes |-> EmptyMap, k |-> 0, hash |-> 0,
     \* what the promise settled with
     result |-> NoEscrowResult,
     \* history: transactions submitted by this call, in order (hashes)
     hSent |-> <<>>,
     \* history: nobody else has changed an allowance since this call began
     hClean |-> TRUE,
     hPrev |-> NoPrev]

\* ------------------------------------------------------- utils/ctf: values
\* POLYGON_ADDRESSES of utils/allowances, the two members used here.
POLYGON_ADDRESSES == [CTF |-> "ctf", USDC |-> "usdcE"]
CTF_CONTRACT_ADDRESS == POLYGON_ADDRESSES.CTF
\* ethers.constants.HashZero
HashZero == "0x00"

\* ethers.BigNumber.from('30000000000'), in base 10^6
POLYGON_MIN_TIP_WEI == BigInt(<<3, 0, 0, 0, 0, 0, 0, 0, 0, 0, 0>>)

\* BigNumber.prototype.lt
lt(a, b) == GreaterThan(b, a)

\* A gas field of a populated transaction: undefined or a BigNumber.
Gas(v) == [has |-> TRUE, v |-> v]
NoGas == [has |-> FALSE, v |-> <<0>>]
NoGasFields == [maxPriorityFeePerGas |-> NoGas, maxFeePerGas |-> NoGas]

\* 1 << n: the count is taken modulo 32, the result is a signed 32-bit integer.
ShiftLeftMutIndexPlusOne(n) == n + 1
ShiftLeft(n) ==
    LET k == n % 32
    IN IF k = 31 THEN (-2147483647) - 1 ELSE 2 ^ k

NoCalldata ==
    [fn |-> "", collateralToken |-> "", parentCollectionId |-> "",
     conditionId |-> "", indexSets |-> <<>>]
NoTx == [to |-> "", data |-> NoCalldata, value |-> 0]
NoRedeemParams == [conditionId |-> "", outcomeIndex |-> 0, chainId |-> 0]
NoRedeemResult == [kind |-> "none", error |-> NoError, tx |-> NoTx, gas |-> NoGasFields]

IdleRedeem ==
    [op |-> "none", pc |-> "idle", params |-> NoRedeemParams,
     tx |-> NoTx, gas |-> NoGasFields, result |-> NoRedeemResult,
     \* history: the gas fields as populateTransaction returned them
     hPopulated |-> NoGasFields]

Init ==
    /\ apiKey \in BOOLEAN
    /\ privyClient \in BOOLEAN
    /\ userCredentials = EmptyMap
    /\ userSafeAddresses = EmptyMap
    /\ run = [p \in Procs |-> IdleRun]
    /\ safeCode = {}
    /\ allowance = [a \in AllAddresses |-> {}]
    /\ clobApiKeys = EmptyMap
    /\ minted = 0
    /\ started = 0
    /\ envChanges = 0
    /\ uuids = 0
    /\ lastLink = EmptyMap
    /\ usdcAllowance = [sp \in EscrowSpenders |-> <<0>>]
    /\ usdcTxs = <<>>
    /\ escrow = IdleEscrow
    /\ redeem = IdleRedeem

\* history: the signer rejected (getAddress or signTypedData) with error e.
SignerFailed(r, e) ==
    [r EXCEPT !.hSignerError = IF @ = NoError THEN e ELSE @]

Invoked(r, name) == \E i \in 1..Len(r.calls) : r.calls[i] = name
Call(r, name) == [r EXCEPT !.pc = name, !.calls = Append(@, name)]

\* The promise rejects with error e.
Throw(r, e) ==
    [r EXCEPT !.pc = "done", !.result = [NoResult EXCEPT !.kind = "error", !.error = e]]

\* history: the awaited call the run is at has failed.
Failure(r) == [r EXCEPT !.hFailed = Append(@, r.pc)]

\* The awaited call rejects with error e and nothing catches it: the method's
\* promise rejects with e.
RejectedMutRetryOnce(r, e) ==
    IF r.hFailed = <<>>
    THEN [Failure(r) EXCEPT !.calls = Append(@, r.pc)]
    ELSE Throw(Failure(r), e)
Rejected(r, e) == Throw(Failure(r), e)

\* ------------------------------------------------- linkUser: control flow
\* linkUserWithSafe, step 3: what to do once isSafeDeployed has answered.
DeployDecisionMutAlways(safeDeployed, autoDeploySafe) ==
    IF ~safeDeployed THEN "deploy" ELSE "skip"
DeployDecisionMutNoThrow(safeDeployed, autoDeploySafe) ==
    IF ~safeDeployed /\ WithDefault(autoDeploySafe, TRUE) THEN "deploy" ELSE "skip"
DeployDecision(safeDeployed, autoDeploySafe) ==
    IF ~safeDeployed /\ WithDefault(autoDeploySafe, TRUE) THEN "deploy"
    ELSE IF ~safeDeployed THEN "throw"
    ELSE "skip"

\* linkUserWithSafe, return value: safeDeployed: !safeDeployed
SafeDeployedField(safeDeployed) == ~safeDeployed

\* The approvals are sent in a fixed order; a failed batch leaves a prefix done.
ApprovalPrefixes == { {}, {"ctfExchange"}, {"ctfExchange", "negRiskCtfExchange"} }

\* linkUserWithSafe: allowancesSet = 3
ALLOWANCES_SET == 3

\* linkUserWithSafe, step 5 / linkUserWithEoa: deriveOrCreateApiCredentials
\* starts by awaiting clobClient.deriveApiKey().
Step5(r) == Call(r, "deriveApiKey")

\* linkUserWithSafe, step 4: check allowances only when autoSetAllowances;
\* checkSafeAllowances(safeAddress, provider) is passed the Safe address.
SafeStep4MutAlwaysCheck(r) ==
    Call([r EXCEPT !.checkedAddress = r.safeAddress], "checkSafeAllowances")
SafeStep4MutSignerAddress(r) ==
    IF r.autoSetAllowances
    THEN Call([r EXCEPT !.checkedAddress = r.eoaAddress], "checkSafeAllowances")
    ELSE Step5(r)
SafeStep4(r) ==
    IF r.autoSetAllowances
    THEN Call([r EXCEPT !.checkedAddress = r.safeAddress], "checkSafeAllowances")
    ELSE Step5(r)

\* if (!allowances.allSet) { await set...(...) }: send the approvals or not.
AllowanceDecisionMutAlwaysSet(allSet) == "set"
AllowanceDecision(allSet) == IF ~allSet THEN "set" ELSE "skip"

\* linkUserWithSafe, steps 1-2 after getAddress resolved.
SafeStep1MutCheckAllowancesFirst(r, address) ==
    Call([r EXCEPT !.eoaAddress = address,
                   !.safeAddress = deriveSafeAddress(address),
                   !.checkedAddress = deriveSafeAddress(address)],
         "checkSafeAllowances")
SafeStep1(r, address) ==
    Call([r EXCEPT !.eoaAddress = address,
                   !.safeAddress = deriveSafeAddress(address)],
         "isSafeDeployed")

\* linkUserWithEoa after getAddress resolved.
EoaStep1MutNoPrivyGuard(r, address, privy) ==
    LET r1 == [r EXCEPT !.eoaAddress = address] IN
    IF r.autoSetAllowances
    THEN Call([r1 EXCEPT !.checkedAddress = address], "checkPrivyWalletAllowances")
    ELSE Step5(r1)
EoaStep1(r, address, privy) ==
    LET r1 == [r EXCEPT !.eoaAddress = address] IN
    IF r.autoSetAllowances /\ privy /\ r.privyWalletId
    THEN Call([r1 EXCEPT !.checkedAddress = address], "checkPrivyWalletAllowances")
    ELSE Step5(r1)

\* The router awaits its helpers without a try/catch, so a helper's rejection
\* is linkUser's rejection, unchanged.  isSafeDeployed and checkSafeAllowances
\* are handed the same provider, deploySafe and setSafeUsdcApproval a relay
\* client built from the same signer and URLs: a failure of the provider or
\* of the relayer surfaces as the same error from either helper.
ProviderError == Err("provider error", "")
RelayerError == Err("relayer error", "")
RejectionOf(name) ==
    CASE name \in {"isSafeDeployed", "checkSafeAllowances"} -> ProviderError
      [] name \in {"deploySafe", "setSafeUsdcApproval"} -> RelayerError

IsLink(p, pc) == run[p].op = "linkUser" /\ run[p].pc = pc
IsSafeLink(r) == r.walletType = "safe"

\* ------------------------------------------------------ linkUser: actions
\* linkUser(params): dispatch on wallet type; both branches destructure the
\* parameters (autoSetAllowances = true) and first await signer.getAddress().
LinkUser(p, userId, signer, walletType, autoDeploySafe, autoSetAllowances, privyWalletId) ==
    /\ run[p].pc = "idle"
    /\ started' = started + 1
    /\ run' = [run EXCEPT ![p] =
         Call([IdleRun EXCEPT
                 !.op = "linkUser", !.userId = userId, !.signer = signer,
                 !.walletType = linkUserWalletType(walletType),
                 !.autoDeploySafe = autoDeploySafe,
                 !.autoSetAllowances = WithDefault(autoSetAllowances, TRUE),
                 !.privyWalletId = privyWalletId,
                 !.hBase = IF signer \in DOMAIN lastLink
                           THEN lastLink[signer] ELSE NoBase],
              "getAddress")]
    /\ UNCHANGED <<ctfVars, escrowVars, routerVars, storeVars, chainVars, clobVars, envChanges, uuids, lastLink>>

\* await signer.getAddress() settles (linkUser).
LinkGetAddress(p) ==
    /\ IsLink(p, "getAddress")
    /\ \/ run' = [run EXCEPT ![p] =
             Rejected(SignerFailed(@, Err("getAddress rejected", "")),
                      Err("getAddress rejected", ""))]
       \/ run' = [run EXCEPT ![p] =
             IF IsSafeLink(@) THEN SafeStep1(@, @.signer)
             ELSE EoaStep1(@, @.signer, privyClient)]
    /\ UNCHANGED <<ctfVars, escrowVars, routerVars, storeVars, chainVars, clobVars, started, envChanges, uuids, lastLink>>

\* await isSafeDeployed(safeAddress, provider) settles.
IsSafeDeployed(p) ==
    /\ IsLink(p, "isSafeDeployed")
    /\ \/ run' = [run EXCEPT ![p] = Rejected(@, RejectionOf("isSafeDeployed"))]
       \/ LET r == run[p]
              deployed == r.safeAddress \in safeCode
              r1 == [r EXCEPT !.safeDeployed = deployed,
                              !.hIsDeployed = IF deployed THEN "yes" ELSE "no"]
              d == DeployDecision(deployed, r.autoDeploySafe)
          IN run' = [run EXCEPT ![p] =
                CASE d = "deploy" -> Call(r1, "deploySafe")
                  [] d = "throw" -> Throw(r1, Err("Safe not deployed", ""))
                  [] OTHER -> SafeStep4(r1)]
    /\ UNCHANGED <<ctfVars, escrowVars, routerVars, storeVars, chainVars, clobVars, started, envChanges, uuids, lastLink>>

\* deployResult.safeAddress: the address the relay reports for the deployment
\* (the signer's Safe, or whatever else the service answers).
DeployReports(signer) == {deriveSafeAddress(signer), OtherFunder}

\* await deploySafe(relayClient) settles: the relay deploys the signer's Safe;
\* the result is only logged.
DeploySafe(p) ==
    /\ IsLink(p, "deploySafe")
    /\ \/ /\ run' = [run EXCEPT ![p] = Rejected(@, RejectionOf("deploySafe"))]
          /\ UNCHANGED safeCode
       \/ /\ safeCode' = safeCode \cup {deriveSafeAddress(run[p].signer)}
          /\ \E reported \in DeployReports(run[p].signer) :
                run' = [run EXCEPT ![p] =
                   SafeStep4([@ EXCEPT !.safeDeployed = TRUE, !.hDeployed = TRUE,
                                       !.hDeployReported = reported])]
    /\ UNCHANGED <<ctfVars, escrowVars, routerVars, storeVars, allowance, clobVars, started, envChanges, uuids, lastLink>>

\* await checkSafeAllowances(safeAddress, provider) settles: the allowances
\* of the address passed are read from the chain.
CheckSafeAllowances(p) ==
    /\ IsLink(p, "checkSafeAllowances")
    /\ \/ run' = [run EXCEPT ![p] = Rejected(@, RejectionOf("checkSafeAllowances"))]
       \/ LET r == run[p]
              missing == Spenders \ allowance[r.checkedAddress]
              allSet == missing = {}
              r1 == [r EXCEPT !.hMissing = missing]
          IN run' = [run EXCEPT ![p] =
                IF AllowanceDecision(allSet) = "set"
                THEN Call(r1, "setSafeUsdcApproval") ELSE Step5(r1)]
    /\ UNCHANGED <<ctfVars, escrowVars, routerVars, storeVars, chainVars, clobVars, started, envChanges, uuids, lastLink>>

\* await setSafeUsdcApproval(relayClient) settles: the relay approves every
\* spender from the signer's Safe; a failure may leave some of them approved.
SetSafeUsdcApproval(p) ==
    /\ IsLink(p, "setSafeUsdcApproval")
    /\ LET safe == deriveSafeAddress(run[p].signer) IN
       \/ /\ \E S \in ApprovalPrefixes :
                allowance' = [allowance EXCEPT ![safe] = @ \cup S]
          /\ run' = [run EXCEPT ![p] = Rejected(@, RejectionOf("setSafeUsdcApproval"))]
       \/ /\ allowance' = [allowance EXCEPT ![safe] = Spenders]
          /\ run' = [run EXCEPT ![p] =
                Step5([@ EXCEPT !.allowancesSet = ALLOWANCES_SET])]
    /\ UNCHANGED <<ctfVars, escrowVars, routerVars, storeVars, safeCode, clobVars, started, envChanges, uuids, lastLink>>

\* await checkPrivyWalletAllowances(address) settles.
CheckPrivyWalletAllowances(p) ==
    /\ IsLink(p, "checkPrivyWalletAllowances")
    /\ \/ run' = [run EXCEPT ![p] = Rejected(@, Err("checkPrivyWalletAllowances failed", ""))]
       \/ LET r == run[p]
              missing == Spenders \ allowance[r.checkedAddress]
              allSet == missing = {}
              r1 == [r EXCEPT !.hMissing = missing]
          IN run' = [run EXCEPT ![p] =
                IF AllowanceDecision(allSet) = "set"
                THEN Call(r1, "setPrivyWalletAllowances")
                ELSE Step5(r1)]
    /\ UNCHANGED <<ctfVars, escrowVars, routerVars, storeVars, chainVars, clobVars, started, envChanges, uuids, lastLink>>

\* await setPrivyWalletAllowances(privyClient, privyWalletId, address, ...) settles.
SetPrivyWalletAllowances(p) ==
    /\ IsLink(p, "setPrivyWalletAllowances")
    /\ LET a == run[p].eoaAddress IN
       \/ /\ \E S \in ApprovalPrefixes :
                allowance' = [allowance EXCEPT ![a] = @ \cup S]
          /\ run' = [run EXCEPT ![p] = Rejected(@, Err("setPrivyWalletAllowances failed", ""))]
       \/ /\ allowance' = [allowance EXCEPT ![a] = Spenders]
          /\ run' = [run EXCEPT ![p] = Step5(@)]
    /\ UNCHANGED <<ctfVars, escrowVars, routerVars, storeVars, safeCode, clobVars, started, envChanges, uuids, lastLink>>


\* ------------------------------------- deriveOrCreateApiCredentials + store
\* The value linkUser resolves with.
LinkResultMutReportedAddress(r, credentials) ==
    IF IsSafeLink(r)
    THEN [NoResult EXCEPT
            !.kind = "SafeLinkResult", !.credentials = credentials,
            !.safeAddress = IF r.hDeployed THEN r.hDeployReported ELSE r.safeAddress,
            !.signerAddress = r.eoaAddress,
            !.safeDeployed = SafeDeployedField(r.safeDeployed),
            !.allowancesSet = r.allowancesSet]
    ELSE [NoResult EXCEPT !.kind = "credentials", !.credentials = credentials]
LinkResult(r, credentials) ==
    IF IsSafeLink(r)
    THEN [NoResult EXCEPT
            !.kind = "SafeLinkResult", !.credentials = credentials,
            !.safeAddress = r.safeAddress, !.signerAddress = r.eoaAddress,
            !.safeDeployed = SafeDeployedField(r.safeDeployed),
            !.allowancesSet = r.allowancesSet]
    ELSE [NoResult EXCEPT !.kind = "credentials", !.credentials = credentials]

\* History bookkeeping: the exchange's answer for `signer` is no longer what
\* earlier links saw; `keep` is the run (if any) whose own request made the change.
Forget(r, signer, keep) ==
    IF r.signer = signer /\ ~keep THEN [r EXCEPT !.hBase = NoBase] ELSE r

\* deriveOrCreateApiCredentials returned apiKeyCreds: build the credentials,
\* write the store(s), resolve.  `own` = the run's own createApiKey changed the
\* exchange; `forget` = the exchange changed or misbehaved in this step.
StoreAndReturnMutEoaClearsSafe(p, r, apiKeyCreds, forget, own) ==
    LET credentials == ToCredentials(apiKeyCreds)
        safe == IsSafeLink(r)
        done == [r EXCEPT !.pc = "done", !.result = LinkResult(r, credentials)]
    IN /\ userCredentials' = MapSet(userCredentials, r.userId, credentials)
       /\ userSafeAddresses' = IF safe
                               THEN MapSet(userSafeAddresses, r.userId, r.safeAddress)
                               ELSE MapRemove(userSafeAddresses, r.userId)
       /\ run' = [q \in Procs |->
                    IF q = p THEN done
                    ELSE IF forget THEN Forget(run[q], r.signer, FALSE)
                    ELSE run[q]]
       /\ lastLink' =
            IF r.signer \in DOMAIN clobApiKeys' /\ clobApiKeys'[r.signer] = apiKeyCreds
            THEN MapSet(lastLink, r.signer,
                        [valid |-> TRUE, viaCreate |-> own, credentials |-> credentials])
            ELSE MapRemove(lastLink, r.signer)
StoreAndReturn(p, r, apiKeyCreds, forget, own) ==
    LET credentials == ToCredentials(apiKeyCreds)
        safe == IsSafeLink(r)
        done == [r EXCEPT !.pc = "done", !.result = LinkResult(r, credentials)]
    IN /\ userCredentials' = MapSet(userCredentials, r.userId, credentials)
       /\ userSafeAddresses' = IF safe
                               THEN MapSet(userSafeAddresses, r.userId, r.safeAddress)
                               ELSE userSafeAddresses
       /\ run' = [q \in Procs |->
                    IF q = p THEN done
                    ELSE IF forget THEN Forget(run[q], r.signer, FALSE)
                    ELSE run[q]]
       /\ lastLink' =
            IF r.signer \in DOMAIN clobApiKeys' /\ clobApiKeys'[r.signer] = apiKeyCreds
            THEN MapSet(lastLink, r.signer,
                        [valid |-> TRUE, viaCreate |-> own, credentials |-> credentials])
            ELSE MapRemove(lastLink, r.signer)

\* What deriveOrCreateApiCredentials does with the settled deriveApiKey():
\* "return" the derived credentials, or fall through to createApiKey().
AfterDeriveMutAlwaysCreate(reply) == "create"
AfterDeriveMutInverted(reply) ==
    IF reply.threw \/ ~DerivedInvalid(reply.value) THEN "create" ELSE "return"
AfterDerive(reply) ==
    IF reply.threw \/ DerivedInvalid(reply.value) THEN "create" ELSE "return"

\* The error deriveOrCreateApiCredentials throws when createApiKey() threw.
CreateFailureMutDeriveMsg(deriveReply, createReply) ==
    Err("Failed to obtain Polymarket API credentials", deriveReply.message)
CreateFailure(deriveReply, createReply) ==
    Err("Failed to obtain Polymarket API credentials", createReply.message)

\* The message of the error the catch block sees after the derive attempt.
DeriveErrorMessage(reply) ==
    IF reply.threw THEN reply.message
    ELSE "Derived credentials are invalid or incomplete"

Returns(v) == [threw |-> FALSE, value |-> v, message |-> ""]
Throws(m) == [threw |-> TRUE, value |-> NullApiKeyCreds, message |-> m]

\* deriveApiKey and createApiKey each have the ethers adapter sign the
\* request (_signTypedData -> signer.signTypedData, no catch): when the
\* signer rejects, the client's call rejects with the signer's error.
SignerFaults == {Throws("signTypedData rejected")}
SignOutcome(reply) == IF reply \in SignerFaults THEN "rejected" ELSE "signed"
\* history: the run's record after the signature request of a client call.
Signed(r, reply) ==
    LET r1 == [r EXCEPT !.hSigns = Append(@, SignOutcome(reply))] IN
    IF reply \in SignerFaults THEN SignerFailed(r1, Err(reply.message, "")) ELSE r1

\* The exchange's truthful answer to deriveApiKey for a signing key.
ClobDerive(signer) ==
    IF signer \in DOMAIN clobApiKeys
    THEN Returns(clobApiKeys[signer])
    ELSE Throws("no API key for signer")

\* Answers that do not reflect the registered key: outage, error envelope.
ClobDeriveFaults ==
    {Throws("deriveApiKey failed")}
      \cup {Returns(v) : v \in IncompleteApiKeyCreds \cup {NullApiKeyCreds}}

\* await clobClient.deriveApiKey() settles.
DeriveApiKey(p) ==
    /\ IsLink(p, "deriveApiKey")
    /\ UNCHANGED <<ctfVars, escrowVars, routerVars, chainVars, clobVars, started, envChanges, uuids>>
    /\ \E reply \in {ClobDerive(run[p].signer)} \cup ClobDeriveFaults \cup SignerFaults :
         LET fault == reply # ClobDerive(run[p].signer)
             r0 == Signed(Forget(run[p], run[p].signer, ~fault), reply)
             r == [(IF reply.threw THEN Failure(r0) ELSE r0) EXCEPT
                      !.hDerive = Seen([reply EXCEPT !.message = DeriveErrorMessage(reply)])]
         IN IF AfterDerive(reply) = "create"
            THEN /\ run' = [q \in Procs |->
                      IF q = p THEN Call(r, "createApiKey")
                      ELSE IF fault THEN Forget(run[q], r.signer, FALSE)
                      ELSE run[q]]
                 /\ lastLink' = IF fault THEN MapRemove(lastLink, r.signer) ELSE lastLink
                 /\ UNCHANGED storeVars
            ELSE StoreAndReturn(p, r, reply.value, fault, FALSE)

\* The exchange's answers to createApiKey: it mints and registers a new key,
\* rejects, or answers with an error envelope the client maps to empty fields.
ClobCreateFaults ==
    {Throws("createApiKey failed"), Returns(ErrorEnvelopeCreds)}

\* await clobClient.createApiKey() settles.
CreateApiKey(p) ==
    /\ IsLink(p, "createApiKey")
    /\ UNCHANGED <<ctfVars, escrowVars, routerVars, chainVars, started, envChanges, uuids>>
    /\ \/ \* a key is minted and registered for the signing key
          /\ minted < MaxKeys
          /\ minted' = minted + 1
          /\ clobApiKeys' = MapSet(clobApiKeys, run[p].signer, MintedKey(minted + 1))
          /\ StoreAndReturn(p, [Signed(run[p], Returns(MintedKey(minted + 1))) EXCEPT
                                  !.hCreate = Seen(Returns(MintedKey(minted + 1)))],
                            MintedKey(minted + 1), TRUE, TRUE)
       \/ \E reply \in ClobCreateFaults \cup SignerFaults :
            LET r == [Signed(Forget(run[p], run[p].signer, FALSE), reply) EXCEPT
                         !.hCreate = Seen(reply)] IN
            /\ UNCHANGED clobVars
            /\ IF reply.threw
               THEN /\ run' = [q \in Procs |->
                          IF q = p THEN Throw(Failure(r), CreateFailure(r.hDerive, reply))
                          ELSE Forget(run[q], r.signer, FALSE)]
                    /\ lastLink' = MapRemove(lastLink, r.signer)
                    /\ UNCHANGED storeVars
               ELSE StoreAndReturn(p, r, reply.value, TRUE, FALSE)

\* The caller takes the settled promise; the slot is free for another call.
Return(p) ==
    /\ run[p].pc = "done"
    /\ run' = [run EXCEPT ![p] = IdleRun]
    /\ UNCHANGED <<ctfVars, escrowVars, routerVars, storeVars, chainVars, clobVars, started, envChanges, uuids, lastLink>>

\* ------------------------------------------------------- store queries
\* isUserLinked(userId): this.userCredentials.has(userId)
isUserLinked(userId) == userId \in DOMAIN userCredentials

\* getCredentials(userId): this.userCredentials.get(userId), or undefined.
getCredentials(userId) ==
    IF userId \in DOMAIN userCredentials
    THEN [defined |-> TRUE, value |-> userCredentials[userId]]
    ELSE [defined |-> FALSE, value |-> NoCredentials]

\* getSafeAddress(userId): this.userSafeAddresses.get(userId), or undefined.
getSafeAddress(userId) ==
    IF userId \in DOMAIN userSafeAddresses
    THEN [defined |-> TRUE, value |-> userSafeAddresses[userId]]
    ELSE [defined |-> FALSE, value |-> ""]

\* -------------------------------------------------- manual store updates
\* setCredentials(userId, credentials): stored as given.
setCredentialsMutReplacesStore(userId, credentials) ==
    /\ started' = started + 1
    /\ userCredentials' = MapSet(EmptyMap, userId, credentials)
    /\ UNCHANGED <<ctfVars, escrowVars, routerVars, userSafeAddresses, run, chainVars, clobVars, envChanges, uuids, lastLink>>
setCredentials(userId, credentials) ==
    /\ started' = started + 1
    /\ userCredentials' = MapSet(userCredentials, userId, credentials)
    /\ UNCHANGED <<ctfVars, escrowVars, routerVars, userSafeAddresses, run, chainVars, clobVars, envChanges, uuids, lastLink>>

\* setSafeAddress(userId, safeAddress): stored as given.
setSafeAddress(userId, safeAddress) ==
    /\ started' = started + 1
    /\ userSafeAddresses' = MapSet(userSafeAddresses, userId, safeAddress)
    /\ UNCHANGED <<ctfVars, escrowVars, routerVars, userCredentials, run, chainVars, clobVars, envChanges, uuids, lastLink>>

\* --------------------------------------------------------- environment
\* No router call is pending.
Quiet == \A p \in Procs : run[p].pc = "idle"

\* A third party changes chain state: deploys a Safe, grants or revokes an
\* allowance.
ChainChange(A) ==
    /\ Quiet
    /\ envChanges < MaxEnvChanges
    /\ envChanges' = envChanges + 1
    /\ \/ /\ \E a \in A : /\ deriveSafeAddress(a) \notin safeCode
                          /\ safeCode' = safeCode \cup {deriveSafeAddress(a)}
          /\ UNCHANGED allowance
       \/ /\ \E a \in A \cup {deriveSafeAddress(x) : x \in A}, sp \in {"negRiskAdapter"} :
                allowance' = [allowance EXCEPT ![a] =
                                 IF sp \in @ THEN @ \ {sp} ELSE @ \cup {sp}]
          /\ UNCHANGED safeCode
    /\ UNCHANGED <<ctfVars, escrowVars, routerVars, storeVars, run, clobVars, started, uuids, lastLink>>

\* The exchange's key registry changes outside the router: a key is revoked,
\* or the user mints one with another client.
ExchangeChange(A) ==
    /\ Quiet
    /\ envChanges < MaxEnvChanges
    /\ envChanges' = envChanges + 1
    /\ \E a \in A :
         /\ \/ /\ a \in DOMAIN clobApiKeys
               /\ clobApiKeys' = MapRemove(clobApiKeys, a)
               /\ UNCHANGED minted
            \/ /\ minted < MaxKeys
               /\ minted' = minted + 1
               /\ clobApiKeys' = MapSet(clobApiKeys, a, MintedKey(minted + 1))
         /\ lastLink' = MapRemove(lastLink, a)
         /\ run' = [q \in Procs |-> Forget(run[q], a, FALSE)]
    /\ UNCHANGED <<ctfVars, escrowVars, routerVars, storeVars, chainVars, started, uuids>>

\* ------------------------------------------------------------ placeOrder
\* The credentials a caller passes explicitly as placeOrder's second argument.
ArgCredentials == ToCredentials(ApiKeyCreds("ka", "sa", "pa"))

\* String.prototype.toLowerCase on the sides the callers pass.
toLowerCase(side) ==
    CASE side \in {"buy", "Buy", "BUY"} -> "buy"
      [] side \in {"sell", "Sell", "SELL"} -> "sell"
      [] OTHER -> side

\* const orderSide = side.toLowerCase() === 'buy' ? 'BUY' : 'SELL'
OrderSideMutAsGiven(side) == side
OrderSide(side) == IF toLowerCase(side) = "buy" THEN "BUY" ELSE "SELL"

\* Signature type by wallet type.
SignatureType(walletType) == IF walletType = "safe" THEN 2 ELSE 0

\* Funder by wallet type:
\*   funderAddress || this.userSafeAddresses.get(userId) || signerAddress  (safe)
\*   signerAddress                                                          (eoa)
FunderMutStoredFirst(walletType, funderAddress, stored, signerAddress) ==
    IF walletType = "safe"
    THEN IF Truthy(stored) THEN stored
         ELSE IF Truthy(funderAddress) THEN funderAddress
         ELSE signerAddress
    ELSE signerAddress
Funder(walletType, funderAddress, stored, signerAddress) ==
    IF walletType = "safe"
    THEN IF Truthy(funderAddress) THEN funderAddress
         ELSE IF Truthy(stored) THEN stored
         ELSE signerAddress
    ELSE signerAddress

\* if (!funderAddress && !this.userSafeAddresses.get(userId)) throw ...
FunderRequiredMutFallsBack(walletType, funderAddress, stored) == FALSE
FunderRequired(walletType, funderAddress, stored) ==
    walletType = "safe" /\ ~Truthy(funderAddress) /\ ~Truthy(stored)

\* Map.get, '' standing for undefined.
StoredSafeAddress(userId) ==
    IF userId \in DOMAIN userSafeAddresses THEN userSafeAddresses[userId] ELSE ""

\* The status member of the result the server returns: a string ("LIVE", or
\* the string "403") or a number (written n200 ... n403).
ResultStatuses == {"LIVE", "403", "n200", "n399", "n400", "n403"}
IsNumber(st) == st \in {"n200", "n399", "n400", "n403"}
NumberOf(st) ==
    CASE st = "n200" -> 200 [] st = "n399" -> 399
      [] st = "n400" -> 400 [] st = "n403" -> 403

\* HTTP responses of the Dome server to placeOrder: ok (2xx) or not, with or
\* without an error member (an object), with or without a result, with or
\* without a message member (which ServerPlaceOrderResponse does not declare
\* and placeOrder never reads).
Responses ==
    [ok : BOOLEAN, error : BOOLEAN, result : BOOLEAN, status : ResultStatuses,
     message : BOOLEAN]

\* placeOrder: classification of the server's response.
ClassifyMutAbove400(resp) ==
    IF ~resp.ok THEN [NoResult EXCEPT !.kind = "error",
                         !.error = Err("Server request failed", "http status and body")]
    ELSE IF resp.error THEN [NoResult EXCEPT !.kind = "error",
                         !.error = Err("Order placement failed", "error code")]
    ELSE IF ~resp.result THEN [NoResult EXCEPT !.kind = "error",
                         !.error = Err("Server returned empty result", "")]
    ELSE IF IsNumber(resp.status) /\ NumberOf(resp.status) > 400
         THEN [NoResult EXCEPT !.kind = "error",
                  !.error = Err("Order rejected by Polymarket", resp.status)]
    ELSE [NoResult EXCEPT !.kind = "orderResult", !.orderStatus = resp.status]
ClassifyMutResultFirst(resp) ==
    IF ~resp.ok THEN [NoResult EXCEPT !.kind = "error",
                         !.error = Err("Server request failed", "http status and body")]
    ELSE IF resp.result /\ IsNumber(resp.status) /\ NumberOf(resp.status) >= 400
         THEN [NoResult EXCEPT !.kind = "error",
                  !.error = Err("Order rejected by Polymarket", resp.status)]
    ELSE IF resp.result
         THEN [NoResult EXCEPT !.kind = "orderResult", !.orderStatus = resp.status]
    ELSE IF resp.error THEN [NoResult EXCEPT !.kind = "error",
                         !.error = Err("Order placement failed", "error code")]
    ELSE [NoResult EXCEPT !.kind = "error",
             !.error = Err("Server returned empty result", "")]
Classify(resp) ==
    IF ~resp.ok THEN [NoResult EXCEPT !.kind = "error",
                         !.error = Err("Server request failed", "http status and body")]
    ELSE IF resp.error THEN [NoResult EXCEPT !.kind = "error",
                         !.error = Err("Order placement failed", "error code")]
    ELSE IF ~resp.result THEN [NoResult EXCEPT !.kind = "error",
                         !.error = Err("Server returned empty result", "")]
    ELSE IF IsNumber(resp.status) /\ NumberOf(resp.status) >= 400
         THEN [NoResult EXCEPT !.kind = "error",
                  !.error = Err("Order rejected by Polymarket", resp.status)]
    ELSE [NoResult EXCEPT !.kind = "orderResult", !.orderStatus = resp.status]

\* placeOrder(params, credentials): the checks made before the first await
\* (API key, signer, credentials), then await actualSigner.getAddress().
\* params.signer is the address of the signer passed ('' if none); a Privy
\* signer is created from (privyWalletId, walletAddress) when none is passed.
PlaceOrderMutCredentialsFirst(p, userId, params) ==
    /\ run[p].pc = "idle"
    /\ started' = started + 1
    /\ LET signer == params.signer
           walletType == params.walletType
           funderAddress == params.funderAddress
           privyWalletId == params.privyWalletId
           walletAddress == params.walletAddress
           side == params.side
           credentialsArg == params.credentialsArg
           r == [IdleRun EXCEPT
                   !.op = "placeOrder", !.userId = userId, !.signer = signer,
                   !.walletType = linkUserWalletType(walletType),
                   !.funderAddress = funderAddress,
                   !.privyWalletId = privyWalletId, !.walletAddress = walletAddress,
                   !.side = side, !.credentialsArg = credentialsArg]
           usePrivy == ~Truthy(signer) /\ privyWalletId /\ Truthy(walletAddress)
           actualSigner == IF Truthy(signer) THEN signer
                           ELSE IF usePrivy THEN walletAddress ELSE ""
           creds == IF credentialsArg THEN ArgCredentials
                    ELSE userCredentials[userId]
       IN run' = [run EXCEPT ![p] =
            IF ~apiKey THEN Throw(r, Err("Dome API key not set", ""))
            ELSE IF ~credentialsArg /\ userId \notin DOMAIN userCredentials
                 THEN Throw(r, Err("No credentials found for user", ""))
            ELSE IF usePrivy /\ ~privyClient THEN Throw(r, Err("Privy not configured", ""))
            ELSE IF ~Truthy(actualSigner)
                 THEN Throw(r, Err("Either provide a signer or Privy wallet info", ""))
            ELSE Call([r EXCEPT !.signer = actualSigner, !.creds = creds], "getAddress")]
    /\ UNCHANGED <<ctfVars, escrowVars, routerVars, storeVars, chainVars, clobVars, envChanges, uuids, lastLink>>
PlaceOrder(p, userId, params) ==
    /\ run[p].pc = "idle"
    /\ started' = started + 1
    /\ LET signer == params.signer
           walletType == params.walletType
           funderAddress == params.funderAddress
           privyWalletId == params.privyWalletId
           walletAddress == params.walletAddress
           side == params.side
           credentialsArg == params.credentialsArg
           r == [IdleRun EXCEPT
                   !.op = "placeOrder", !.userId = userId, !.signer = signer,
                   !.walletType = linkUserWalletType(walletType),
                   !.funderAddress = funderAddress,
                   !.privyWalletId = privyWalletId, !.walletAddress = walletAddress,
                   !.side = side, !.credentialsArg = credentialsArg]
           usePrivy == ~Truthy(signer) /\ privyWalletId /\ Truthy(walletAddress)
           actualSigner == IF Truthy(signer) THEN signer
                           ELSE IF usePrivy THEN walletAddress ELSE ""
           creds == IF credentialsArg THEN ArgCredentials
                    ELSE userCredentials[userId]
       IN run' = [run EXCEPT ![p] =
            IF ~apiKey THEN Throw(r, Err("Dome API key not set", ""))
            ELSE IF usePrivy /\ ~privyClient THEN Throw(r, Err("Privy not configured", ""))
            ELSE IF ~Truthy(actualSigner)
                 THEN Throw(r, Err("Either provide a signer or Privy wallet info", ""))
            ELSE IF ~credentialsArg /\ userId \notin DOMAIN userCredentials
                 THEN Throw(r, Err("No credentials found for user", ""))
            ELSE Call([r EXCEPT !.signer = actualSigner, !.creds = creds], "getAddress")]
    /\ UNCHANGED <<ctfVars, escrowVars, routerVars, storeVars, chainVars, clobVars, envChanges, uuids, lastLink>>

IsOrder(p, pc) == run[p].op = "placeOrder" /\ run[p].pc = pc

\* await actualSigner.getAddress() settles (placeOrder): signature type and
\* funder are chosen, the signing client is built, createOrder is awaited.
PlaceGetAddress(p) ==
    /\ IsOrder(p, "getAddress")
    /\ \/ run' = [run EXCEPT ![p] = Rejected(@, Err("getAddress rejected", ""))]
       \/ LET r == run[p]
              signerAddress == r.signer
              stored == StoredSafeAddress(r.userId)
              r1 == [r EXCEPT
                       !.eoaAddress = signerAddress,
                       !.signatureType = SignatureType(r.walletType),
                       !.funder = Funder(r.walletType, r.funderAddress, stored,
                                         signerAddress)]
          IN run' = [run EXCEPT ![p] =
                IF FunderRequired(r.walletType, r.funderAddress, stored)
                THEN Throw(r1, Err("funderAddress is required for Safe wallet orders", ""))
                ELSE Call(r1, "createOrder")]
    /\ UNCHANGED <<ctfVars, escrowVars, routerVars, storeVars, chainVars, clobVars, started, envChanges, uuids, lastLink>>

\* crypto.randomUUID?.() || `${Date.now()}-${Math.random()...}`: an identifier
\* that was not handed out before (the generator's contract), drawn anew in
\* every call; `handedOut` is the number of identifiers drawn so far.
ClientOrderIdMutReused(handedOut) == IF handedOut = 0 THEN 1 ELSE handedOut
ClientOrderId(handedOut) == handedOut + 1

\* await userClobClient.createOrder(...) settles: the client built the order
\* for (funder, signer address, signature type) and had the signer sign it.
\* The payload copies the order, taking side from orderSide; a client order
\* id is drawn; the request is sent.
CreateOrder(p) ==
    /\ IsOrder(p, "createOrder")
    /\ \/ /\ run' = [run EXCEPT ![p] = Rejected(@, Err("signTypedData rejected", ""))]
          /\ UNCHANGED uuids
       \/ /\ uuids' = uuids + 1
          /\ LET r == run[p]
                 orderSide == OrderSide(r.side)
                 signedOrder == [maker |-> r.funder, signer |-> r.eoaAddress,
                                 side |-> orderSide,
                                 signatureType |-> r.signatureType, signed |-> TRUE]
                 payload == [signedOrder EXCEPT !.side = orderSide]
                 clientOrderId == ClientOrderId(uuids)
             IN run' = [run EXCEPT ![p] =
                   Call([r EXCEPT !.signedOrder = signedOrder,
                                  !.request = [id |-> clientOrderId,
                                               clientOrderId |-> clientOrderId,
                                               signedOrder |-> payload,
                                               credentials |-> r.creds]],
                        "fetch")]
    /\ UNCHANGED <<ctfVars, escrowVars, routerVars, storeVars, chainVars, clobVars, started, envChanges, lastLink>>

\* await fetch(.../polymarket/placeOrder) settles and the body is read.
PlaceFetch(p) ==
    /\ IsOrder(p, "fetch")
    /\ \/ run' = [run EXCEPT ![p] = Rejected(@, Err("fetch failed", ""))]
       \/ \E resp \in Responses :
             run' = [run EXCEPT ![p] =
                [(IF ~resp.ok THEN Failure(@) ELSE @) EXCEPT
                    !.pc = "done", !.result = Classify(resp), !.hResp = {resp}]]
    /\ UNCHANGED <<ctfVars, escrowVars, routerVars, storeVars, chainVars, clobVars, started, envChanges, uuids, lastLink>>

\* ------------------------------------------- cancelOrder / claimWinnings
\* An optional member that was not given (undefined).
Absent == "absent"

\* Responses of the Dome server to cancelOrder and claimWinnings: ok (2xx) or
\* not; error and message are strings ('' is falsy), success a boolean.
OptStrings == {Absent, "", "text"}
BackendResponses ==
    [ok : BOOLEAN, error : OptStrings, message : OptStrings,
     success : {Absent, "true", "false"}]

\* JavaScript truthiness of an optional string / boolean member.
TruthyMember(v) == v \notin {Absent, "", "false"}

\* serverResponse.error || serverResponse.message
ErrorOrMessage(resp) == IF TruthyMember(resp.error) THEN resp.error ELSE resp.message

\* cancelOrder: classification of the server's response.
ClassifyCancelMutAbsentIsSuccess(resp) ==
    IF ~resp.ok THEN [NoResult EXCEPT !.kind = "error",
                         !.error = Err("Cancel request failed", "http status and body")]
    ELSE IF TruthyMember(resp.error) \/ TruthyMember(resp.message)
         THEN [NoResult EXCEPT !.kind = "error",
                  !.error = Err("Order cancellation failed", ErrorOrMessage(resp))]
    ELSE IF resp.success = "false"
         THEN [NoResult EXCEPT !.kind = "error",
                  !.error = Err("Server returned unsuccessful cancellation", "")]
    ELSE [NoResult EXCEPT !.kind = "cancelResult"]
ClassifyCancel(resp) ==
    IF ~resp.ok THEN [NoResult EXCEPT !.kind = "error",
                         !.error = Err("Cancel request failed", "http status and body")]
    ELSE IF TruthyMember(resp.error) \/ TruthyMember(resp.message)
         THEN [NoResult EXCEPT !.kind = "error",
                  !.error = Err("Order cancellation failed", ErrorOrMessage(resp))]
    ELSE IF ~TruthyMember(resp.success)
         THEN [NoResult EXCEPT !.kind = "error",
                  !.error = Err("Server returned unsuccessful cancellation", "")]
    ELSE [NoResult EXCEPT !.kind = "cancelResult"]

\* claimWinnings: classification of the server's response.
ClassifyClaimMutSuccessFirst(resp) ==
    IF ~resp.ok THEN [NoResult EXCEPT !.kind = "error",
                         !.error = Err("Claim winnings request failed", "http status and body")]
    ELSE IF TruthyMember(resp.success) THEN [NoResult EXCEPT !.kind = "claimResult"]
    ELSE IF TruthyMember(resp.error) \/ TruthyMember(resp.message)
         THEN [NoResult EXCEPT !.kind = "error",
                  !.error = Err("Claim winnings failed", ErrorOrMessage(resp))]
    ELSE [NoResult EXCEPT !.kind = "error",
             !.error = Err("Server returned unsuccessful claim", "")]
ClassifyClaim(resp) ==
    IF ~resp.ok THEN [NoResult EXCEPT !.kind = "error",
                         !.error = Err("Claim winnings request failed", "http status and body")]
    ELSE IF TruthyMember(resp.error) \/ TruthyMember(resp.message)
         THEN [NoResult EXCEPT !.kind = "error",
                  !.error = Err("Claim winnings failed", ErrorOrMessage(resp))]
    ELSE IF ~TruthyMember(resp.success)
         THEN [NoResult EXCEPT !.kind = "error",
                  !.error = Err("Server returned unsuccessful claim", "")]
    ELSE [NoResult EXCEPT !.kind = "claimResult"]

\* cancelOrder(params): API key check, request built from the parameters,
\* then await fetch(.../polymarket/cancelOrder).
CancelOrderMutNoKeyCheck(p, params) ==
    /\ run[p].pc = "idle"
    /\ started' = started + 1
    /\ LET r == [IdleRun EXCEPT !.op = "cancelOrder"]
           request == [orderId |-> params.orderId,
                       signerAddress |-> params.signerAddress,
                       credentials |-> [apiKey |-> params.credentials.apiKey,
                                        apiSecret |-> params.credentials.apiSecret,
                                        apiPassphrase |-> params.credentials.apiPassphrase]]
       IN run' = [run EXCEPT ![p] = Call([r EXCEPT !.cancelRequest = {request}], "fetch")]
    /\ UNCHANGED <<ctfVars, escrowVars, routerVars, storeVars, chainVars, clobVars, envChanges, uuids, lastLink>>
CancelOrder(p, params) ==
    /\ run[p].pc = "idle"
    /\ started' = started + 1
    /\ LET r == [IdleRun EXCEPT !.op = "cancelOrder"]
           request == [orderId |-> params.orderId,
                       signerAddress |-> params.signerAddress,
                       credentials |-> [apiKey |-> params.credentials.apiKey,
                                        apiSecret |-> params.credentials.apiSecret,
                                        apiPassphrase |-> params.credentials.apiPassphrase]]
       IN run' = [run EXCEPT ![p] =
            IF ~apiKey THEN Throw(r, Err("Dome API key required for cancelOrder", ""))
            ELSE Call([r EXCEPT !.cancelRequest = {request}], "fetch")]
    /\ UNCHANGED <<ctfVars, escrowVars, routerVars, storeVars, chainVars, clobVars, envChanges, uuids, lastLink>>

\* await fetch(.../polymarket/cancelOrder) settles and the body is read.
CancelFetch(p) ==
    /\ run[p].op = "cancelOrder" /\ run[p].pc = "fetch"
    /\ \/ run' = [run EXCEPT ![p] = Rejected(@, Err("fetch failed", ""))]
       \/ \E resp \in BackendResponses :
             run' = [run EXCEPT ![p] =
                [(IF ~resp.ok THEN Failure(@) ELSE @) EXCEPT
                    !.pc = "done", !.result = ClassifyCancel(resp), !.hResp = {resp}]]
    /\ UNCHANGED <<ctfVars, escrowVars, routerVars, storeVars, chainVars, clobVars, started, envChanges, uuids, lastLink>>

\* The optional members of ClaimWinningsParams copied into the request:
\* ...(x !== undefined && { x }) keeps exactly the members that were given.
ClaimOptionalMembers ==
    {"signedRedeemTx", "privyWalletId", "conditionId", "outcomeIndex", "affiliate"}

\* claimWinnings(params): API key check, request built from the parameters,
\* then await fetch(.../polymarket/claimWinnings).
ClaimWinnings(p, params) ==
    /\ run[p].pc = "idle"
    /\ started' = started + 1
    /\ LET r == [IdleRun EXCEPT !.op = "claimWinnings"]
           request == [positionId |-> params.positionId,
                       walletType |-> params.walletType,
                       payerAddress |-> params.payerAddress,
                       signerAddress |-> params.signerAddress,
                       performanceFeeAuth |-> params.performanceFeeAuth,
                       members |-> {m \in ClaimOptionalMembers : params[m] # Absent},
                       signedRedeemTx |-> params.signedRedeemTx,
                       privyWalletId |-> params.privyWalletId,
                       conditionId |-> params.conditionId,
                       outcomeIndex |-> params.outcomeIndex,
                       affiliate |-> params.affiliate]
       IN run' = [run EXCEPT ![p] =
            IF ~apiKey THEN Throw(r, Err("Dome API key required for claimWinnings", ""))
            ELSE Call([r EXCEPT !.claimRequest = {request}], "fetch")]
    /\ UNCHANGED <<ctfVars, escrowVars, routerVars, storeVars, chainVars, clobVars, envChanges, uuids, lastLink>>

\* await fetch(.../polymarket/claimWinnings) settles and the body is read.
ClaimFetch(p) ==
    /\ run[p].op = "claimWinnings" /\ run[p].pc = "fetch"
    /\ \/ run' = [run EXCEPT ![p] = Rejected(@, Err("fetch failed", ""))]
       \/ \E resp \in BackendResponses :
             run' = [run EXCEPT ![p] =
                [(IF ~resp.ok THEN Failure(@) ELSE @) EXCEPT
                    !.pc = "done", !.result = ClassifyClaim(resp), !.hResp = {resp}]]
    /\ UNCHANGED <<ctfVars, escrowVars, routerVars, storeVars, chainVars, clobVars, started, envChanges, uuids, lastLink>>

\* ------------------------------------------------ escrow/approve: actions
\* The promise of the pending call rejects with error e.
EscrowThrow(r, e) ==
    [r EXCEPT !.pc = "done", !.result = [NoEscrowResult EXCEPT !.kind = "error", !.error = e]]

\* approveEscrow: the contracts split by the allowances just read, in the
\* order of the table.
NeedsApprovalMutNonZero(contracts, allowances) ==
    SelectSeq(contracts, LAMBDA c : allowances[c.name].allowance = <<0>>)
NeedsApproval(contracts, allowances) ==
    SelectSeq(contracts, LAMBDA c : ~allowances[c.name].hasAllowance)
AlreadyApproved(contracts, allowances) ==
    LET have == SelectSeq(contracts, LAMBDA c : allowances[c.name].hasAllowance)
    IN [n \in 1..Len(have) |-> have[n].name]

\* iface.encodeFunctionData('approve', [address, ethers.constants.MaxUint256])
ApproveCalldataMutThreshold(address) ==
    [fn |-> "approve", spender |-> address, amount |-> <<1, 0, 1>>]
ApproveCalldataMutExactThreshold(address) ==
    [fn |-> "approve", spender |-> address, amount |-> <<1, 0, 0>>]
ApproveCalldata(address) ==
    [fn |-> "approve", spender |-> address, amount |-> MaxUint256]

\* if (receipt.status !== 1) throw ...; otherwise the loop goes on.
ReceiptDecisionMutIgnoreStatus(status) == "next"
ReceiptDecision(status) == IF status # 1 THEN "throw" ELSE "next"

\* approveEscrow once the entry at index k is confirmed: the next entry that
\* needs approval is sent, or the call returns.
NextApproval(r) ==
    IF r.k < Len(r.needsApproval)
    THEN [r EXCEPT !.k = @ + 1, !.pc = "sendTransaction"]
    ELSE [r EXCEPT !.pc = "done",
             !.result = [NoEscrowResult EXCEPT
                            !.kind = "approveResult", !.approved = r.approved,
                            !.alreadyApproved = r.alreadyApproved,
                            !.txHashes = r.txHashes]]

\* Object.values(allowances).every(a => a.hasAllowance)
EveryMutSome(allowances) ==
    \E name \in DOMAIN allowances : allowances[name].hasAllowance
Every(allowances) ==
    \A name \in DOMAIN allowances : allowances[name].hasAllowance

\* A call starts: its locals are fresh.
Fresh(op) == [IdleEscrow EXCEPT !.op = op, !.hPrev = escrow.hPrev]

\* The loop of checkAllowances is over: checkAllowances returns its results;
\* approveEscrow splits the contracts and returns early or starts sending.
AfterCheck(r) ==
    IF r.op = "checkAllowances"
    THEN [r EXCEPT !.pc = "done",
             !.result = [NoEscrowResult EXCEPT !.kind = "allowances",
                                               !.allowances = r.results]]
    ELSE IF r.op = "hasRequiredApprovals"
    THEN [r EXCEPT !.pc = "done",
             !.result = [NoEscrowResult EXCEPT !.kind = "boolean",
                                               !.value = Every(r.results)]]
    ELSE LET needsApproval == NeedsApproval(r.contracts, r.results)
             alreadyApproved == AlreadyApproved(r.contracts, r.results)
             r1 == [r EXCEPT !.needsApproval = needsApproval,
                             !.alreadyApproved = alreadyApproved]
         IN IF Len(needsApproval) = 0
            THEN [r1 EXCEPT !.pc = "done",
                     !.result = [NoEscrowResult EXCEPT
                                    !.kind = "approveResult",
                                    !.alreadyApproved = alreadyApproved]]
            ELSE [r1 EXCEPT !.k = 1, !.pc = "sendTransaction"]

\* for (const [name, address] of Object.entries(contracts)): the first
\* allowance is awaited, or there is nothing to iterate.
EnterCheck(r, contracts) ==
    LET r1 == [r EXCEPT !.contracts = contracts] IN
    IF Len(contracts) = 0 THEN AfterCheck(r1)
    ELSE [r1 EXCEPT !.i = 1, !.pc = "allowance"]

\* checkAllowances(walletAddress, contracts, options), called on its own.
checkAllowances(contracts) ==
    /\ escrow.pc = "idle"
    /\ started' = started + 1
    /\ escrow' = EnterCheck(Fresh("checkAllowances"), contracts)
    /\ UNCHANGED <<usdcAllowance, usdcTxs, polymarketVars, ctfVars, envChanges>>

\* const contractsToApprove = customContracts ? customContracts
\*     : escrowOnly ? { 'Fee Escrow': ESCROW_CONTRACT_POLYGON } : ALL_CONTRACTS_TO_APPROVE
ContractsToApprove(options) ==
    IF options.contracts.given THEN options.contracts.entries
    ELSE IF WithDefault(options.escrowOnly, FALSE)
         THEN <<Entry("Fee Escrow", ESCROW_CONTRACT_POLYGON)>>
    ELSE ALL_CONTRACTS_TO_APPROVE

\* approveEscrow(options): the contracts are chosen, checkAllowances is awaited.
approveEscrow(options) ==
    /\ escrow.pc = "idle"
    /\ started' = started + 1
    /\ escrow' = EnterCheck(Fresh("approveEscrow"), ContractsToApprove(options))
    /\ UNCHANGED <<usdcAllowance, usdcTxs, polymarketVars, ctfVars, envChanges>>

\* hasRequiredApprovals(walletAddress, options): the contracts are chosen by
\* escrowOnly alone, checkAllowances is awaited.
RequiredContracts(options) ==
    IF WithDefault(options.escrowOnly, FALSE)
    THEN <<Entry("Fee Escrow", ESCROW_CONTRACT_POLYGON)>>
    ELSE ALL_CONTRACTS_TO_APPROVE

hasRequiredApprovals(options) ==
    /\ escrow.pc = "idle"
    /\ started' = started + 1
    /\ escrow' = EnterCheck(Fresh("hasRequiredApprovals"), RequiredContracts(options))
    /\ UNCHANGED <<usdcAllowance, usdcTxs, polymarketVars, ctfVars, envChanges>>

\* await usdc.allowance(walletAddress, address) settles.
UsdcAllowance ==
    /\ escrow.pc = "allowance"
    /\ \/ escrow' = EscrowThrow(escrow, Err("allowance call failed", ""))
       \/ LET c == escrow.contracts[escrow.i]
              raw == usdcAllowance[c.address]
              allowanceBigInt == BigInt(toString(raw))
              hasAllowance == HasAllowance(allowanceBigInt)
              r1 == [escrow EXCEPT !.results =
                        MapSet(@, c.name, [hasAllowance |-> hasAllowance,
                                           allowance |-> allowanceBigInt])]
          IN escrow' = IF escrow.i < Len(escrow.contracts)
                       THEN [r1 EXCEPT !.i = @ + 1]
                       ELSE AfterCheck(r1)
    /\ UNCHANGED <<usdcAllowance, usdcTxs, polymarketVars, ctfVars, started, envChanges>>

\* await privyClient.walletApi.ethereum.sendTransaction(...) settles: the
\* wallet's transaction is in the pool and its hash is recorded.
SendTransaction ==
    /\ escrow.pc = "sendTransaction"
    /\ \/ /\ escrow' = EscrowThrow(escrow, Err("sendTransaction rejected", ""))
          /\ UNCHANGED usdcTxs
       \/ LET c == escrow.needsApproval[escrow.k]
              hash == Len(usdcTxs) + 1
          IN /\ usdcTxs' = Append(usdcTxs, [to |-> USDC_POLYGON,
                                            data |-> ApproveCalldata(c.address),
                                            status |-> "pending"])
             /\ escrow' = [escrow EXCEPT !.txHashes = MapSet(@, c.name, hash),
                                         !.hash = hash,
                                         !.hSent = Append(@, hash),
                                         !.pc = "waitForTransaction"]
    /\ UNCHANGED <<usdcAllowance, polymarketVars, ctfVars, started, envChanges>>

\* The chain executes transaction `hash`: approve(spender, amount) succeeds
\* and sets the allowance, or reverts.
Mined(hash, ok) ==
    /\ usdcTxs' = [usdcTxs EXCEPT ![hash].status = IF ok THEN "success" ELSE "reverted"]
    /\ usdcAllowance' =
          IF ok THEN [usdcAllowance EXCEPT ![usdcTxs[hash].data.spender] =
                                              usdcTxs[hash].data.amount]
          ELSE usdcAllowance

\* await provider.waitForTransaction(result.hash, 1, 60000) settles: with the
\* receipt of the mined transaction (status 1 or 0), or it rejects (timeout,
\* RPC failure), the transaction being mined or still pending.
WaitForTransaction ==
    /\ escrow.pc = "waitForTransaction"
    /\ LET name == escrow.needsApproval[escrow.k].name
           failed == Err("Approval transaction failed", name)
           timeout == EscrowThrow(escrow, Err("waitForTransaction rejected", ""))
       IN \/ \E status \in {0, 1} :
                /\ Mined(escrow.hash, status = 1)
                /\ escrow' = IF ReceiptDecision(status) = "throw"
                             THEN EscrowThrow(escrow, failed)
                             ELSE NextApproval([escrow EXCEPT !.approved = Append(@, name)])
          \/ /\ escrow' = timeout
             /\ UNCHANGED <<usdcTxs, usdcAllowance>>
          \/ /\ escrow' = timeout
             /\ Mined(escrow.hash, TRUE)
    /\ UNCHANGED <<polymarketVars, ctfVars, started, envChanges>>

\* The caller takes the settled promise.
Remembered(r) ==
    IF ~r.hClean THEN NoPrev
    ELSE IF r.op = "approveEscrow" /\ r.result.kind = "approveResult"
         THEN [valid |-> TRUE, contracts |-> r.contracts]
    ELSE r.hPrev

EscrowReturn ==
    /\ escrow.pc = "done"
    /\ escrow' = [IdleEscrow EXCEPT !.hPrev = Remembered(escrow)]
    /\ UNCHANGED <<usdcAllowance, usdcTxs, polymarketVars, ctfVars, started, envChanges>>

\* The wallet's allowance to a spender changes outside the call: the spender
\* draws on it, or the owner approves another amount elsewhere.
UsdcChange(spenders, values) ==
    /\ envChanges < MaxEnvChanges
    /\ envChanges' = envChanges + 1
    /\ \E sp \in spenders, v \in values :
          /\ usdcAllowance[sp] # v
          /\ usdcAllowance' = [usdcAllowance EXCEPT ![sp] = v]
    /\ escrow' = [escrow EXCEPT !.hClean = escrow.pc = "idle", !.hPrev = NoPrev]
    /\ UNCHANGED <<usdcTxs, polymarketVars, ctfVars, started>>

\* --------------------------------------------------------- specification

\* The parameter combinations linkUser is called with (a parameter the
\* selected branch never reads is left out).
LinkParams ==
    { q \in [walletType : WalletTypes, autoDeploySafe : OptBool,
             autoSetAllowances : OptBool, privyWalletId : BOOLEAN] :
        IF q.walletType = "safe" THEN q.privyWalletId = FALSE
        ELSE q.autoDeploySafe = "omitted" }

CredentialInputs ==
    { ToCredentials(ApiKeyCreds("kx", "sx", "px")), ToCredentials(ApiKeyCreds("kx", "", "px")) }

SetCredentials(U) == \E u \in U, c \in CredentialInputs : setCredentials(u, c)
SetSafeAddress(U) ==
    \E u \in U, s \in SafeAddresses \cup {OtherFunder} : setSafeAddress(u, s)

StartLink(p, U, A) ==
    \E u \in U, a \in A, q \in LinkParams :
       LinkUser(p, u, a, q.walletType, q.autoDeploySafe, q.autoSetAllowances,
                q.privyWalletId)

\* One router call at a time: a call starts when no promise is pending.
\* One user links one wallet, again and again, in either topology.
Next ==
    \/ Quiet /\ started < MaxCalls /\ StartLink("p1", {"u1"}, {"a1"})
    \/ \E p \in Procs : LinkGetAddress(p)
    \/ \E p \in Procs : IsSafeDeployed(p)
    \/ \E p \in Procs : DeploySafe(p)
    \/ \E p \in Procs : CheckSafeAllowances(p)
    \/ \E p \in Procs : SetSafeUsdcApproval(p)
    \/ \E p \in Procs : CheckPrivyWalletAllowances(p)
    \/ \E p \in Procs : SetPrivyWalletAllowances(p)
    \/ \E p \in Procs : DeriveApiKey(p)
    \/ \E p \in Procs : CreateApiKey(p)
    \/ \E p \in Procs : Return(p)
    \/ Quiet /\ started < MaxCalls /\ SetCredentials({"u1"})
    \/ Quiet /\ started < MaxCalls /\ SetSafeAddress({"u1"})
    \/ ChainChange({"a1"})
    \/ ExchangeChange({"a1"})

Spec == Init /\ [][Next]_vars

\* Order placement, on stores filled by setCredentials / setSafeAddress.
OrderParams ==
    { q \in [signer : Addresses \cup {""}, walletType : WalletTypes,
             funderAddress : {"", "safe1", OtherFunder},
             privyWalletId : BOOLEAN, walletAddress : {"", "a1"},
             side : {"buy", "BUY", "sell"}, credentialsArg : BOOLEAN] :
        /\ q.walletType # "safe" => q.funderAddress = ""
        /\ Truthy(q.signer) => (~q.privyWalletId /\ q.walletAddress = "") }

StartOrder(p) ==
    \E u \in Users, q \in OrderParams :
       PlaceOrder(p, u, q)

NextOrder ==
    \/ Quiet /\ started < MaxOrderCalls /\ StartOrder("p1")
    \/ \E p \in Procs : PlaceGetAddress(p)
    \/ \E p \in Procs : CreateOrder(p)
    \/ \E p \in Procs : PlaceFetch(p)
    \/ \E p \in Procs : Return(p)
    \/ Quiet /\ started < MaxOrderCalls /\ SetCredentials(Users)
    \/ Quiet /\ started < MaxOrderCalls /\ SetSafeAddress(Users)

SpecOrder == Init /\ [][NextOrder]_vars

\* The four operations that talk to the outside (linkUser, placeOrder,
\* cancelOrder, claimWinnings), one call at a time, for one user and signer.
AllLinkParams ==
    { q \in LinkParams :
        /\ q.autoSetAllowances \in {"omitted", "false"}
        /\ q.walletType \in {"safe", "omitted"} }

AllOrderParams ==
    { q \in OrderParams :
        /\ q.signer = "a1" /\ q.side = "buy" /\ q.credentialsArg
        /\ q.walletType \in {"safe", "omitted"}
        /\ q.walletType = "safe" => q.funderAddress = "safe1" }

CancelParams ==
    [orderId : {"o1"}, signerAddress : Addresses, credentials : CredentialInputs]

ClaimParams ==
    [positionId : {"pos1"}, walletType : {"eoa", "privy"},
     payerAddress : {"a1"}, signerAddress : {"a1"}, performanceFeeAuth : {"auth1"},
     signedRedeemTx : {Absent, "0xtx"}, privyWalletId : {Absent, "w1"},
     conditionId : {Absent, "c1"}, outcomeIndex : {Absent, "0", "1"},
     affiliate : {Absent, "aff1"}]

AllCancelParams == { q \in CancelParams : q.signerAddress = "a1" }

\* Every combination of the optional flow members the type admits: the two
\* documented flows (a pre-signed transaction, or the Privy members), both
\* at once, neither, and a flow that does not match walletType.
AllClaimParams == { q \in ClaimParams : q.affiliate = Absent }

MayStart == Quiet /\ started < MaxAllCalls

NextAll ==
    \/ MayStart /\ \E q \in AllLinkParams :
          LinkUser("p1", "u1", "a1", q.walletType, q.autoDeploySafe,
                   q.autoSetAllowances, q.privyWalletId)
    \/ MayStart /\ \E q \in AllOrderParams : PlaceOrder("p1", "u1", q)
    \/ MayStart /\ \E q \in AllCancelParams : CancelOrder("p1", q)
    \/ MayStart /\ \E q \in AllClaimParams : ClaimWinnings("p1", q)
    \/ \E p \in Procs : LinkGetAddress(p)
    \/ \E p \in Procs : IsSafeDeployed(p)
    \/ \E p \in Procs : DeploySafe(p)
    \/ \E p \in Procs : CheckSafeAllowances(p)
    \/ \E p \in Procs : SetSafeUsdcApproval(p)
    \/ \E p \in Procs : CheckPrivyWalletAllowances(p)
    \/ \E p \in Procs : SetPrivyWalletAllowances(p)
    \/ \E p \in Procs : DeriveApiKey(p)
    \/ \E p \in Procs : CreateApiKey(p)
    \/ \E p \in Procs : PlaceGetAddress(p)
    \/ \E p \in Procs : CreateOrder(p)
    \/ \E p \in Procs : PlaceFetch(p)
    \/ \E p \in Procs : CancelFetch(p)
    \/ \E p \in Procs : ClaimFetch(p)
    \/ \E p \in Procs : Return(p)

SpecAll == Init /\ [][NextAll]_vars

\* Concurrent linking: the caller starts linkUser for the same user and signer
\* while an earlier call is still pending; the exchange holds no key at first.
RaceLinkParams ==
    { q \in LinkParams :
        /\ q.autoDeploySafe = "omitted" /\ q.autoSetAllowances = "false"
        /\ q.walletType \in {"safe", "omitted"} /\ ~q.privyWalletId }

NextRace ==
    \/ started < MaxRaceCalls /\ \E p \in Procs, q \in RaceLinkParams :
          LinkUser(p, "u1", "a1", q.walletType, q.autoDeploySafe,
                   q.autoSetAllowances, q.privyWalletId)
    \/ \E p \in Procs : LinkGetAddress(p)
    \/ \E p \in Procs : IsSafeDeployed(p)
    \/ \E p \in Procs : DeploySafe(p)
    \/ \E p \in Procs : DeriveApiKey(p)
    \/ \E p \in Procs : CreateApiKey(p)
    \/ \E p \in Procs : Return(p)

SpecRace == Init /\ [][NextRace]_vars

\* The two stores across operations: two users link one after the other in
\* either topology, credentials are also set by hand, and orders, cancels and
\* claims run in between.
StoreLinkParams ==
    { q \in LinkParams :
        /\ q.autoDeploySafe = "omitted" /\ q.autoSetAllowances = "omitted"
        /\ q.walletType \in {"safe", "eoa"} }

StoreOrderParams ==
    { q \in OrderParams :
        /\ q.signer = "a1" /\ q.side = "buy" /\ ~q.credentialsArg
        /\ q.walletType \in {"safe", "eoa"} /\ q.funderAddress = "" }

StoreCancelParams ==
    { q \in AllCancelParams : CredentialsComplete(q.credentials) }

StoreClaimParams ==
    { q \in AllClaimParams :
        /\ q.walletType = "eoa" /\ q.signedRedeemTx # Absent
        /\ q.privyWalletId = Absent /\ q.conditionId = Absent /\ q.outcomeIndex = Absent }

StoreMayStart == Quiet /\ started < MaxStoreCalls

NextStore ==
    \/ StoreMayStart /\ \E u \in Users, q \in StoreLinkParams :
          LinkUser("p1", u, "a1", q.walletType, q.autoDeploySafe,
                   q.autoSetAllowances, q.privyWalletId)
    \/ StoreMayStart /\ \E q \in StoreOrderParams : PlaceOrder("p1", "u1", q)
    \/ StoreMayStart /\ \E q \in StoreCancelParams : CancelOrder("p1", q)
    \/ StoreMayStart /\ \E q \in StoreClaimParams : ClaimWinnings("p1", q)
    \/ StoreMayStart /\ SetCredentials(Users)
    \/ \E p \in Procs : LinkGetAddress(p)
    \/ \E p \in Procs : IsSafeDeployed(p)
    \/ \E p \in Procs : DeploySafe(p)
    \/ \E p \in Procs : CheckSafeAllowances(p)
    \/ \E p \in Procs : SetSafeUsdcApproval(p)
    \/ \E p \in Procs : CheckPrivyWalletAllowances(p)
    \/ \E p \in Procs : SetPrivyWalletAllowances(p)
    \/ \E p \in Procs : DeriveApiKey(p)
    \/ \E p \in Procs : CreateApiKey(p)
    \/ \E p \in Procs : PlaceGetAddress(p)
    \/ \E p \in Procs : CreateOrder(p)
    \/ \E p \in Procs : PlaceFetch(p)
    \/ \E p \in Procs : CancelFetch(p)
    \/ \E p \in Procs : ClaimFetch(p)
    \/ \E p \in Procs : Return(p)

SpecStore == Init /\ [][NextStore]_vars

\* escrow/approve: one wallet on a chain whose allowances start anywhere;
\* checkAllowances and approveEscrow are called one at a time.
CustomContracts ==
    { <<>>, <<Entry("Neg Risk Adapter", "negRiskAdapter"),
              Entry("Fee Escrow", ESCROW_CONTRACT_POLYGON)>> }

ApproveEscrowOptions ==
    { o \in [escrowOnly : OptBool,
             contracts : [given : BOOLEAN, entries : CustomContracts \cup {<<>>}]] :
        /\ ~o.contracts.given => o.contracts.entries = <<>>
        /\ o.contracts.given => o.escrowOnly = "true" }

\* The allowances the wallet starts with: any of the values for the escrow
\* and the CTF Exchange, none or unlimited for the two neg-risk contracts.
InitialAllowances ==
    { f \in [EscrowSpenders -> AllowanceValues] :
        \A sp \in {"negRiskCtfExchange", "negRiskAdapter"} : f[sp] \in {<<0>>, MaxUint256} }

InitEscrow ==
    /\ apiKey = TRUE
    /\ privyClient = TRUE
    /\ userCredentials = EmptyMap
    /\ userSafeAddresses = EmptyMap
    /\ run = [p \in Procs |-> IdleRun]
    /\ safeCode = {}
    /\ allowance = [a \in AllAddresses |-> {}]
    /\ clobApiKeys = EmptyMap
    /\ minted = 0
    /\ started = 0
    /\ envChanges = 0
    /\ uuids = 0
    /\ lastLink = EmptyMap
    /\ usdcAllowance \in InitialAllowances
    /\ usdcTxs = <<>>
    /\ escrow = IdleEscrow
    /\ redeem = IdleRedeem

NextEscrow ==
    \/ started < MaxEscrowCalls /\ \E o \in ApproveEscrowOptions : approveEscrow(o)
    \/ started < MaxEscrowCalls /\ checkAllowances(ALL_CONTRACTS_TO_APPROVE)
    \/ started < MaxEscrowCalls /\ \E escrowOnly \in {"omitted", "true"} :
          hasRequiredApprovals([escrowOnly |-> escrowOnly])
    \/ UsdcAllowance
    \/ SendTransaction
    \/ WaitForTransaction
    \/ EscrowReturn
    \/ UsdcChange({ESCROW_CONTRACT_POLYGON}, {<<0>>})

SpecEscrow == InitEscrow /\ [][NextEscrow]_vars

\* ------------------------------------------------------ utils/ctf: redeem
\* iface.encodeFunctionData('redeemPositions', [USDC, parentCollectionId,
\* conditionId, indexSets]): the call the calldata decodes to.
buildRedeemPositionsCalldata(params) ==
    [fn |-> "redeemPositions",
     collateralToken |-> POLYGON_ADDRESSES.USDC,
     parentCollectionId |-> HashZero,
     conditionId |-> params.conditionId,
     indexSets |-> <<ShiftLeft(params.outcomeIndex)>>]

buildRedeemPositionsTx(params) ==
    [to |-> CTF_CONTRACT_ADDRESS, data |-> buildRedeemPositionsCalldata(params),
     value |-> 0]

\* The floor on the tip of a populated Polygon transaction.
GasFloorMutTipOnly(chainId, gas) ==
    IF chainId = 137 /\ gas.maxPriorityFeePerGas.has
       /\ lt(gas.maxPriorityFeePerGas.v, POLYGON_MIN_TIP_WEI)
    THEN [gas EXCEPT !.maxPriorityFeePerGas = Gas(POLYGON_MIN_TIP_WEI)]
    ELSE gas
GasFloor(chainId, gas) ==
    IF chainId = 137 /\ gas.maxPriorityFeePerGas.has
    THEN LET tip == gas.maxPriorityFeePerGas.v
         IN IF lt(tip, POLYGON_MIN_TIP_WEI)
            THEN LET maxFee == IF gas.maxFeePerGas.has THEN gas.maxFeePerGas.v ELSE <<0>>
                 IN [maxPriorityFeePerGas |-> Gas(POLYGON_MIN_TIP_WEI),
                     maxFeePerGas |-> IF lt(maxFee, POLYGON_MIN_TIP_WEI)
                                      THEN Gas(POLYGON_MIN_TIP_WEI)
                                      ELSE gas.maxFeePerGas]
            ELSE gas
    ELSE gas

RedeemThrow(r, e) ==
    [r EXCEPT !.pc = "done", !.result = [NoRedeemResult EXCEPT !.kind = "error", !.error = e]]

\* A caller builds the unsigned transaction.
BuildRedeemPositionsTx(params) ==
    /\ redeem.pc = "idle"
    /\ started' = started + 1
    /\ redeem' = [IdleRedeem EXCEPT
                    !.op = "buildRedeemPositionsTx", !.pc = "done", !.params = params,
                    !.result = [NoRedeemResult EXCEPT
                                  !.kind = "tx", !.tx = buildRedeemPositionsTx(params)]]
    /\ UNCHANGED <<escrowVars, polymarketVars, envChanges>>

\* signRedeemPositionsTx(wallet, params) up to await wallet.populateTransaction.
signRedeemPositionsTx(provider, params) ==
    /\ redeem.pc = "idle"
    /\ started' = started + 1
    /\ LET r == [IdleRedeem EXCEPT !.op = "signRedeemPositionsTx", !.params = params]
       IN redeem' =
            IF ~provider
            THEN RedeemThrow(r, Err("signRedeemPositionsTx requires a wallet connected to a provider", ""))
            ELSE [r EXCEPT !.pc = "populateTransaction",
                           !.tx = buildRedeemPositionsTx(params)]
    /\ UNCHANGED <<escrowVars, polymarketVars, envChanges>>

\* await wallet.populateTransaction(...) settles: the provider has chosen the
\* gas fields (EIP-1559 fields, or none for a legacy transaction); the floor
\* is applied and wallet.signTransaction is awaited.
PopulateTransaction(gasFields) ==
    /\ redeem.pc = "populateTransaction"
    /\ \/ redeem' = RedeemThrow(redeem, Err("populateTransaction rejected", ""))
       \/ \E gas \in gasFields :
             redeem' = [redeem EXCEPT
                          !.pc = "signTransaction",
                          !.hPopulated = gas,
                          !.gas = GasFloor(redeem.params.chainId, gas)]
    /\ UNCHANGED <<escrowVars, polymarketVars, started, envChanges>>

\* await wallet.signTransaction(populatedTx) settles: the serialized signed
\* transaction carries the fields it was handed.
SignTransaction ==
    /\ redeem.pc = "signTransaction"
    /\ \/ redeem' = RedeemThrow(redeem, Err("signTransaction rejected", ""))
       \/ redeem' = [redeem EXCEPT
                       !.pc = "done",
                       !.result = [NoRedeemResult EXCEPT
                                     !.kind = "signedTx", !.tx = redeem.tx,
                                     !.gas = redeem.gas]]
    /\ UNCHANGED <<escrowVars, polymarketVars, started, envChanges>>

RedeemReturn ==
    /\ redeem.pc = "done"
    /\ redeem' = IdleRedeem
    /\ UNCHANGED <<escrowVars, polymarketVars, started, envChanges>>

\* Redemption of a resolved market (the two outcomes of a binary market, and
\* a third outcome slot), on Polygon and on another chain; the provider's gas
\* estimates lie on both sides of the 30 gwei floor.
RedeemParams ==
    [conditionId : {"c1", "c2"}, outcomeIndex : {0, 1, 2}, chainId : {137, 1}]

GasValues ==
    { <<0>>, <<29999, 999999>>, POLYGON_MIN_TIP_WEI, <<30000, 1>>, <<1, 0, 0>> }

GasFields ==
    [maxPriorityFeePerGas : {NoGas} \cup {Gas(v) : v \in GasValues},
     maxFeePerGas : {NoGas} \cup {Gas(v) : v \in GasValues}]

InitRedeem ==
    /\ apiKey = TRUE
    /\ privyClient = TRUE
    /\ userCredentials = EmptyMap
    /\ userSafeAddresses = EmptyMap
    /\ run = [p \in Procs |-> IdleRun]
    /\ safeCode = {}
    /\ allowance = [a \in AllAddresses |-> {}]
    /\ clobApiKeys = EmptyMap
    /\ minted = 0
    /\ started = 0
    /\ envChanges = 0
    /\ uuids = 0
    /\ lastLink = EmptyMap
    /\ usdcAllowance = [sp \in EscrowSpenders |-> <<0>>]
    /\ usdcTxs = <<>>
    /\ escrow = IdleEscrow
    /\ redeem = IdleRedeem

NextRedeem ==
    \/ started < MaxRedeemCalls /\ \E q \in RedeemParams :
          BuildRedeemPositionsTx([conditionId |-> q.conditionId,
                                  outcomeIndex |-> q.outcomeIndex])
    \/ started < MaxRedeemCalls /\ \E provider \in BOOLEAN, q \in RedeemParams :
          signRedeemPositionsTx(provider, q)
    \/ PopulateTransaction(GasFields)
    \/ SignTransaction
    \/ RedeemReturn

SpecRedeem == InitRedeem /\ [][NextRedeem]_vars



\* ================================================================ claims
Linking(p) == run[p].op = "linkUser"
Settled(p) == run[p].pc = "done"
Succeeded(p) == Settled(p) /\ run[p].result.kind # "error"
Failed(p) == Settled(p) /\ run[p].result.kind = "error"
DeriveFailed(r) == r.hDerive.settled /\ (r.hDerive.threw \/ ~r.hDerive.complete)
\* name a is invoked, and before any invocation of name b
Before(r, a, b) ==
    \A j \in 1..Len(r.calls) :
       r.calls[j] = b => \E i \in 1..(j - 1) : r.calls[i] = a

\* A step of a linkUser run other than its successful completion.
NotCompleting(p) ==
    /\ Linking(p)
    /\ run'[p] # run[p]
    /\ ~(run'[p].pc = "done" /\ run'[p].result.kind # "error")

\* C1: createApiKey is invoked only after deriveApiKey of the same run threw
\* or returned an incomplete result; when deriveApiKey returned key, secret
\* and passphrase all non-empty, createApiKey is not invoked and the derived
\* credentials are returned and stored.
C1_DeriveBeforeCreate ==
    \A p \in Procs : Linking(p) =>
       /\ Invoked(run[p], "createApiKey") =>
             /\ DeriveFailed(run[p])
             /\ Before(run[p], "deriveApiKey", "createApiKey")
       /\ (run[p].hDerive.settled /\ run[p].hDerive.complete) =>
             /\ ~Invoked(run[p], "createApiKey")
             /\ Succeeded(p)
             /\ run[p].result.credentials.apiKey = run[p].hDerive.value.key
             /\ run[p].result.credentials.apiSecret = run[p].hDerive.value.secret
             /\ run[p].result.credentials.apiPassphrase = run[p].hDerive.value.passphrase
             /\ run[p].userId \in DOMAIN userCredentials
             /\ userCredentials[run[p].userId] = run[p].result.credentials

C1_Witness ==
    \E p \in Procs :
       /\ Linking(p) /\ Succeeded(p)
       /\ run[p].hDerive.complete
       /\ run[p].walletType = "safe"

\* C2: a deriveApiKey result that is null or lacks key, secret or passphrase
\* always leads to a createApiKey attempt in the same run, and what the run
\* returns and stores is createApiKey's result.
C2_InvalidDeriveFallsThrough ==
    \A p \in Procs :
       (Linking(p) /\ run[p].hDerive.settled /\ ~run[p].hDerive.threw
          /\ ~run[p].hDerive.complete) =>
         /\ Invoked(run[p], "createApiKey")
         /\ Succeeded(p) =>
               /\ run[p].hCreate.settled /\ ~run[p].hCreate.threw
               /\ run[p].result.credentials = ToCredentials(run[p].hCreate.value)
               /\ userCredentials[run[p].userId] = ToCredentials(run[p].hCreate.value)

C2_Witness ==
    \E p \in Procs :
       /\ Linking(p) /\ Succeeded(p)
       /\ run[p].hDerive.settled /\ ~run[p].hDerive.threw /\ ~run[p].hDerive.complete
       /\ run[p].hCreate.complete

\* C3: when deriveApiKey fails and createApiKey then throws, linkUser fails
\* with one error that carries createApiKey's message, not deriveApiKey's,
\* and no step of the run writes either store.
C3_ErrorIsCreateFailure ==
    \A p \in Procs :
       (Linking(p) /\ DeriveFailed(run[p]) /\ run[p].hCreate.settled
          /\ run[p].hCreate.threw) =>
         /\ Failed(p)
         /\ run[p].result.error.msg = "Failed to obtain Polymarket API credentials"
         /\ run[p].result.error.cause = run[p].hCreate.message
         /\ run[p].hCreate.message # run[p].hDerive.message =>
               run[p].result.error.cause # run[p].hDerive.message
         /\ run[p].result.credentials = NoCredentials

C3_CreateFailure ==
    /\ [] C3_ErrorIsCreateFailure
    /\ [][\A p \in Procs : NotCompleting(p) => UNCHANGED storeVars]_vars

C3_Witness ==
    \E p \in Procs :
       /\ Linking(p) /\ Failed(p)
       /\ run[p].hDerive.threw
       /\ run[p].hCreate.settled /\ run[p].hCreate.threw

\* C4: every entry of the credential store has apiKey, apiSecret and
\* apiPassphrase all non-empty.
C4_StoredCredentialsComplete ==
    \A u \in DOMAIN userCredentials : CredentialsComplete(userCredentials[u])

Ordering(p) == run[p].op = "placeOrder"
ReachedSigning(p) == Ordering(p) /\ Invoked(run[p], "createOrder")

SafeLinking(p) == Linking(p) /\ run[p].walletType = "safe"

\* C7 (as claimed): deploySafe is invoked only if isSafeDeployed reported
\* false and the caller passed autoDeploySafe: true.
C7_DeployOnlyIfExplicit ==
    \A p \in Procs :
       (SafeLinking(p) /\ Invoked(run[p], "deploySafe")) =>
          /\ run[p].hIsDeployed = "no"
          /\ run[p].autoDeploySafe = "true"

\* C7 (amended): deploySafe is invoked only after isSafeDeployed reported
\* false and only if the caller did not pass autoDeploySafe: false (the
\* parameter defaults to true); an EOA link never deploys.
C7_DeployUnlessDisabled ==
    \A p \in Procs : Linking(p) =>
       /\ Invoked(run[p], "deploySafe") =>
             /\ run[p].walletType = "safe"
             /\ run[p].hIsDeployed = "no"
             /\ Before(run[p], "isSafeDeployed", "deploySafe")
             /\ run[p].autoDeploySafe # "false"
       /\ (run[p].walletType = "safe" /\ run[p].hIsDeployed = "no"
             /\ run[p].autoDeploySafe # "false") => Invoked(run[p], "deploySafe")

C7_Witness ==
    \E p \in Procs :
       /\ SafeLinking(p)
       /\ run[p].autoDeploySafe = "omitted"
       /\ run[p].hIsDeployed = "no"
       /\ run[p].hDeployed

\* C8: a Safe link with autoDeploySafe false and an undeployed Safe fails
\* with 'Safe not deployed', having invoked nothing but getAddress and
\* isSafeDeployed, and the failing step leaves both stores unchanged.
C8_NotDeployedState ==
    \A p \in Procs :
       (SafeLinking(p) /\ run[p].autoDeploySafe = "false"
          /\ run[p].hIsDeployed = "no") =>
         /\ Failed(p)
         /\ run[p].result.error.msg = "Safe not deployed"
         /\ run[p].calls = <<"getAddress", "isSafeDeployed">>
         /\ ~run[p].hDerive.settled /\ ~run[p].hCreate.settled

C8_SafeNotDeployedFails ==
    /\ [] C8_NotDeployedState
    /\ [][\A p \in Procs :
            (SafeLinking(p) /\ run[p].pc = "isSafeDeployed" /\ run'[p].pc = "done")
               => UNCHANGED storeVars]_vars

C8_Witness ==
    \E p \in Procs :
       /\ SafeLinking(p) /\ Failed(p)
       /\ run[p].autoDeploySafe = "false"
       /\ run[p].hIsDeployed = "no"
       /\ run[p].userId \in DOMAIN userCredentials

\* C9: the safeDeployed field of the Safe link result is true exactly when
\* deploySafe was invoked and succeeded during this call.
C9_SafeDeployedMeansDeployedNow ==
    \A p \in Procs :
       (SafeLinking(p) /\ Succeeded(p)) =>
          (run[p].result.safeDeployed <=> run[p].hDeployed)

\* C10 (as claimed): allowancesSet is the number of spenders whose allowance
\* was missing before the call and was set during it.
C10_CountsMissing ==
    \A p \in Procs :
       (SafeLinking(p) /\ Succeeded(p)) =>
          run[p].result.allowancesSet =
             IF run[p].autoSetAllowances THEN Cardinality(run[p].hMissing) ELSE 0

\* C10 (amended): allowancesSet is 0 when autoSetAllowances is false or the
\* check found every allowance set, and otherwise the number of spenders
\* (three), however many of them were missing.
C10_CountsAllSpenders ==
    \A p \in Procs :
       (SafeLinking(p) /\ Succeeded(p)) =>
          run[p].result.allowancesSet =
             IF run[p].autoSetAllowances /\ run[p].hMissing # {}
             THEN Cardinality(Spenders) ELSE 0

C10_Witness ==
    \E p \in Procs :
       /\ SafeLinking(p) /\ Succeeded(p)
       /\ Cardinality(run[p].hMissing) = 1
       /\ run[p].result.allowancesSet = Cardinality(Spenders)

\* C11: in a Safe link the allowances are checked, and set, only after the
\* Safe is known to be deployed (isSafeDeployed reported it, or deploySafe
\* resolved in this run), and the check is made on the Safe address derived
\* from the signer's address, never on the signer's address.
C11_AllowancesAfterDeployment ==
    \A p \in Procs : SafeLinking(p) =>
       /\ Invoked(run[p], "checkSafeAllowances") =>
             /\ run[p].hIsDeployed = "yes" \/ run[p].hDeployed
             /\ Before(run[p], "isSafeDeployed", "checkSafeAllowances")
             /\ run[p].hIsDeployed = "no" =>
                   Before(run[p], "deploySafe", "checkSafeAllowances")
             /\ run[p].checkedAddress = run[p].safeAddress
             /\ run[p].checkedAddress \in SafeAddresses
             /\ run[p].checkedAddress # run[p].eoaAddress
             /\ run[p].checkedAddress \in safeCode
       /\ Invoked(run[p], "setSafeUsdcApproval") =>
             Before(run[p], "checkSafeAllowances", "setSafeUsdcApproval")
       /\ ~Invoked(run[p], "checkPrivyWalletAllowances")
       /\ ~Invoked(run[p], "setPrivyWalletAllowances")

C11_Witness ==
    \E p \in Procs :
       /\ SafeLinking(p) /\ Succeeded(p)
       /\ run[p].hIsDeployed = "no" /\ run[p].hDeployed
       /\ Invoked(run[p], "setSafeUsdcApproval")
       /\ run[p].checkedAddress = deriveSafeAddress(run[p].signer)

\* The place of each awaited call in the linking flow.
StepRank(name) ==
    CASE name = "getAddress" -> 0
      [] name = "isSafeDeployed" -> 1
      [] name = "deploySafe" -> 2
      [] name \in {"checkSafeAllowances", "checkPrivyWalletAllowances"} -> 3
      [] name \in {"setSafeUsdcApproval", "setPrivyWalletAllowances"} -> 4
      [] name = "deriveApiKey" -> 5
      [] name = "createApiKey" -> 6
      [] OTHER -> 7

C12_StepOrder ==
    \A p \in Procs : Linking(p) =>
       LET r == run[p] IN
       /\ \A i, j \in 1..Len(r.calls) :
             i < j => StepRank(r.calls[i]) < StepRank(r.calls[j])
       /\ r.calls[1] = "getAddress"
       /\ IsSafeLink(r) =>
             /\ Invoked(r, "isSafeDeployed") =>
                   r.safeAddress # "" /\ r.safeAddress = deriveSafeAddress(r.eoaAddress)
             /\ Invoked(r, "deriveApiKey") => Invoked(r, "isSafeDeployed")
             /\ r.hIsDeployed = "no" /\ Invoked(r, "deriveApiKey") =>
                   Invoked(r, "deploySafe")
       /\ r.hMissing # {} /\ Invoked(r, "deriveApiKey") =>
             Invoked(r, "setSafeUsdcApproval") \/ Invoked(r, "setPrivyWalletAllowances")
       /\ Succeeded(p) =>
             /\ Invoked(r, "deriveApiKey")
             /\ r.userId \in DOMAIN userCredentials
             /\ IsSafeLink(r) => r.userId \in DOMAIN userSafeAddresses

\* The step of a linkUser run that resolves its promise.
Completing(p) ==
    /\ Linking(p)
    /\ run[p].pc # "done"
    /\ run'[p].pc = "done" /\ run'[p].result.kind # "error"

\* Store m is the same for every user other than u.
SameButFor(m, n, u) ==
    /\ DOMAIN n \ {u} = DOMAIN m \ {u}
    /\ \A x \in DOMAIN m \ {u} : n[x] = m[x]

C12_StoreStep ==
    \A p \in Procs :
       (Linking(p) /\ run'[p] # run[p]) =>
          IF Completing(p)
          THEN /\ run[p].pc \in {"deriveApiKey", "createApiKey"}
               /\ SameButFor(userCredentials, userCredentials', run[p].userId)
               /\ SameButFor(userSafeAddresses, userSafeAddresses', run[p].userId)
               /\ userCredentials'[run[p].userId] = run'[p].result.credentials
          ELSE UNCHANGED storeVars

\* C12: a linkUser run makes its steps in the order derive-address (Safe
\* only), check-deployment, deploy, check-allowances, set-allowances,
\* derive-or-create-credentials, store; both stores are written only in the
\* last step, which resolves the promise, so every other step of the run, a
\* failing one included, leaves both stores unchanged for every user.
C12_StoresWrittenLast ==
    /\ [] C12_StepOrder
    /\ [][C12_StoreStep]_vars

C12_Witness ==
    \E p \in Procs :
       /\ Linking(p) /\ Failed(p)
       /\ run[p].calls = <<"getAddress", "isSafeDeployed", "checkSafeAllowances",
                           "setSafeUsdcApproval">>
       /\ run[p].userId \in DOMAIN userCredentials
       /\ run[p].userId \in DOMAIN userSafeAddresses

C13_NothingSentUnlessNeeded ==
    \A p \in Procs : Linking(p) =>
       LET r == run[p] IN
       /\ r.hIsDeployed = "yes" => ~Invoked(r, "deploySafe")
       /\ Invoked(r, "setSafeUsdcApproval") =>
             r.hMissing # {} /\ Before(r, "checkSafeAllowances", "setSafeUsdcApproval")
       /\ Invoked(r, "setPrivyWalletAllowances") =>
             r.hMissing # {}
                /\ Before(r, "checkPrivyWalletAllowances", "setPrivyWalletAllowances")
       /\ r.hDerive.complete => ~Invoked(r, "createApiKey")

\* The user of run p is linked already: the store holds credentials for the
\* user, they are the ones the exchange derives for the signer in this run,
\* and (Safe link) the stored Safe address is the signer's Safe.
AlreadyLinked(p) ==
    LET r == run[p]
        derived == run'[p].hDerive
    IN /\ r.userId \in DOMAIN userCredentials
       /\ derived.complete
       /\ userCredentials[r.userId].apiKey = derived.value.key
       /\ userCredentials[r.userId].apiSecret = derived.value.secret
       /\ userCredentials[r.userId].apiPassphrase = derived.value.passphrase
       /\ IsSafeLink(r) =>
             /\ r.userId \in DOMAIN userSafeAddresses
             /\ userSafeAddresses[r.userId] = r.safeAddress

\* C13: linking again a user who is linked already, whose Safe is deployed,
\* whose allowances are all set and whose credentials the exchange derives,
\* sends no deployment, no approval and no createApiKey request and leaves
\* the stored credentials and Safe address as they were; approvals are sent
\* only if the allowance check of the run reported one missing.
C13_RelinkIsNoOp ==
    /\ [] C13_NothingSentUnlessNeeded
    /\ [][\A p \in Procs :
            (Completing(p) /\ AlreadyLinked(p)) =>
               /\ UNCHANGED storeVars
               /\ ~Invoked(run'[p], "createApiKey")
               /\ run'[p].result.credentials = userCredentials[run[p].userId]]_vars

C13_Witness ==
    \E p \in Procs :
       /\ SafeLinking(p) /\ Succeeded(p)
       /\ run[p].hBase.valid
       /\ run[p].calls = <<"getAddress", "isSafeDeployed", "checkSafeAllowances",
                           "deriveApiKey">>
       /\ run[p].hIsDeployed = "yes" /\ run[p].hMissing = {}
       /\ run[p].hDerive.complete
       /\ userCredentials[run[p].userId] = run[p].hBase.credentials
       /\ userSafeAddresses[run[p].userId] = run[p].safeAddress

\* C14: when an EOA link finds no credentials (the derivation fails) and
\* createApiKey resolves, linkUser resolves with the created credentials and,
\* once it has resolved, isUserLinked(userId) is true and
\* getCredentials(userId) is the object returned.
C14_CreatedCredentialsStored ==
    \A p \in Procs :
       LET r == run[p] IN
       (Linking(p) /\ ~IsSafeLink(r) /\ DeriveFailed(r)
          /\ r.hCreate.settled /\ ~r.hCreate.threw) =>
         /\ Succeeded(p)
         /\ r.result.kind = "credentials"
         /\ r.hCreate.complete =>
               /\ r.result.credentials.apiKey = r.hCreate.value.key
               /\ r.result.credentials.apiSecret = r.hCreate.value.secret
               /\ r.result.credentials.apiPassphrase = r.hCreate.value.passphrase
         /\ isUserLinked(r.userId)
         /\ getCredentials(r.userId).defined
         /\ getCredentials(r.userId).value = r.result.credentials

C14_Witness ==
    \E p \in Procs :
       /\ Linking(p) /\ ~IsSafeLink(run[p]) /\ Succeeded(p)
       /\ run[p].hDerive.threw
       /\ run[p].hCreate.complete
       /\ run[p].result.credentials.apiKey = run[p].hCreate.value.key
       /\ isUserLinked(run[p].userId)

\* C15: the safeAddress a Safe link returns, and stores for the user, is
\* deriveSafeAddress of the signer's address: the same for every run with
\* that signer, whether the Safe was deployed before the run or during it
\* and whatever address deploySafe reported.
C15_SafeAddressIsDerived ==
    \A p \in Procs :
       (SafeLinking(p) /\ Succeeded(p)) =>
          /\ run[p].result.safeAddress = deriveSafeAddress(run[p].signer)
          /\ run[p].result.signerAddress = run[p].signer
          /\ getSafeAddress(run[p].userId).defined
          /\ getSafeAddress(run[p].userId).value = deriveSafeAddress(run[p].signer)

C15_Witness ==
    \E p \in Procs :
       /\ SafeLinking(p) /\ Succeeded(p)
       /\ run[p].hDeployed
       /\ run[p].hDeployReported # deriveSafeAddress(run[p].signer)
       /\ run[p].result.safeAddress = deriveSafeAddress(run[p].signer)
       /\ userSafeAddresses[run[p].userId] = run[p].result.safeAddress

EoaLinking(p) == Linking(p) /\ ~IsSafeLink(run[p])

NoDeploymentStep(r) ==
    /\ ~Invoked(r, "isSafeDeployed") /\ ~Invoked(r, "deploySafe")
    /\ r.hIsDeployed = "unknown" /\ ~r.hDeployed

\* C16 (as claimed): every EOA link with autoSetAllowances not disabled checks
\* the allowances of the signer's own address and sets the missing ones
\* before it derives credentials, and makes no deployment check or deployment.
C16_EoaAlwaysChecksAllowances ==
    \A p \in Procs :
       (EoaLinking(p) /\ run[p].autoSetAllowances) =>
          /\ NoDeploymentStep(run[p])
          /\ Invoked(run[p], "deriveApiKey") =>
                /\ Invoked(run[p], "checkPrivyWalletAllowances")
                /\ run[p].checkedAddress = run[p].eoaAddress

\* C16 (amended): an EOA link checks allowances exactly when autoSetAllowances
\* is not disabled, the router has a Privy client and a privyWalletId was
\* passed; the check is then made on the signer's own address and missing
\* allowances are set on it before credentials are derived.  Otherwise no
\* allowance is checked or set.  No EOA link checks deployment or deploys.
C16_EoaChecksAllowancesWithPrivy ==
    \A p \in Procs : EoaLinking(p) =>
       LET r == run[p]
           guarded == r.autoSetAllowances /\ privyClient /\ r.privyWalletId
       IN /\ NoDeploymentStep(r)
          /\ ~Invoked(r, "checkSafeAllowances") /\ ~Invoked(r, "setSafeUsdcApproval")
          /\ Invoked(r, "checkPrivyWalletAllowances") => guarded
          /\ Invoked(r, "setPrivyWalletAllowances") => guarded
          /\ (guarded /\ Len(r.calls) > 1) =>
                /\ r.calls[2] = "checkPrivyWalletAllowances"
                /\ r.checkedAddress = r.eoaAddress
                /\ r.checkedAddress = r.signer
          /\ (guarded /\ Invoked(r, "deriveApiKey")) =>
                /\ Before(r, "checkPrivyWalletAllowances", "deriveApiKey")
                /\ r.hMissing # {} =>
                      /\ Before(r, "setPrivyWalletAllowances", "deriveApiKey")
                      /\ allowance[r.eoaAddress] = Spenders
          /\ (~guarded /\ Len(r.calls) > 1) => r.calls[2] = "deriveApiKey"

C16_Witness ==
    \E p \in Procs :
       /\ EoaLinking(p) /\ Succeeded(p)
       /\ privyClient /\ run[p].privyWalletId
       /\ run[p].hMissing # {}
       /\ Invoked(run[p], "setPrivyWalletAllowances")
       /\ allowance[run[p].signer] = Spenders

\* C17: a failure of the signer during linkUser (getAddress or signTypedData
\* rejecting) ends the run with that same error, unchanged, and once
\* signTypedData has rejected the signer is not asked to sign again in the run.
C17_SignerFailurePropagates ==
    \A p \in Procs : Linking(p) =>
       LET r == run[p] IN
       /\ r.hSignerError # NoError =>
             /\ Failed(p)
             /\ r.result.error = r.hSignerError
       /\ \A i \in 1..Len(r.hSigns) :
             r.hSigns[i] = "rejected" => i = Len(r.hSigns)

Calling(p) == run[p].op # "none"

\* C18: apart from the derive-then-create fallback nothing is retried: in one
\* call of linkUser, placeOrder, cancelOrder or claimWinnings every external
\* call is awaited at most once, and the first failure of any of them other
\* than deriveApiKey ends the call with an error.
C18_NothingRetried ==
    \A p \in Procs : Calling(p) =>
       LET r == run[p] IN
       /\ \A i, j \in 1..Len(r.calls) : i < j => r.calls[i] # r.calls[j]
       /\ \A i \in 1..Len(r.hFailed) :
             /\ Invoked(r, r.hFailed[i])
             /\ r.hFailed[i] # "deriveApiKey" =>
                   /\ i = Len(r.hFailed)
                   /\ Failed(p)
                   /\ r.calls[Len(r.calls)] = r.hFailed[i]
             /\ r.hFailed[i] = "deriveApiKey" =>
                   /\ i = 1
                   /\ Invoked(r, "createApiKey")

C18_Witness ==
    \E p \in Procs :
       /\ run[p].op = "placeOrder" /\ Failed(p)
       /\ run[p].calls = <<"getAddress", "createOrder", "fetch">>
       /\ run[p].hFailed = <<"fetch">>
       /\ \E resp \in run[p].hResp : ~resp.ok

\* Credentials that are one whole answer of the exchange.
WholeCredentials(c) ==
    \/ \E n \in 1..Len(KeyNames) :
          /\ c.apiKey = KeyNames[n] /\ c.apiSecret = SecretNames[n]
          /\ c.apiPassphrase = PassNames[n]
    \/ \E v \in IncompleteApiKeyCreds :
          /\ c.apiKey = v.key /\ c.apiSecret = v.secret
          /\ c.apiPassphrase = v.passphrase

\* The credential-store entry of user u is written in this step.
Written(u) ==
    /\ u \in DOMAIN userCredentials'
    /\ u \notin DOMAIN userCredentials \/ userCredentials'[u] # userCredentials[u]

C19_StoreHoldsOneRunsCredentials ==
    /\ \A u \in DOMAIN userCredentials : WholeCredentials(userCredentials[u])
    /\ (\A p \in Procs : Linking(p) /\ Succeeded(p)) =>
          \E p \in Procs : userCredentials[run[p].userId] = run[p].result.credentials

\* C19: linkUser runs for the same user are not mutually exclusive: two
\* pending runs for one signer without exchange credentials may both fail the
\* derivation and both invoke createApiKey; every write of the credential
\* store is the whole credentials object of the run that completes in that
\* step, so the store holds the object of the run that wrote last and never a
\* mix of fields of two runs.
C19_LastWriterWins ==
    /\ [] C19_StoreHoldsOneRunsCredentials
    /\ [][\A u \in Users : Written(u) =>
            \E p \in Procs :
               /\ Completing(p) /\ run[p].userId = u
               /\ userCredentials'[u] = run'[p].result.credentials
               /\ WholeCredentials(run'[p].result.credentials)]_vars

C19_Witness ==
    /\ \A p \in Procs :
          /\ Linking(p) /\ Succeeded(p)
          /\ run[p].userId = "u1" /\ run[p].signer = "a1"
          /\ run[p].hDerive.threw /\ run[p].hDerive.message = "no API key for signer"
          /\ run[p].calls[Len(run[p].calls)] = "createApiKey"
          /\ run[p].hCreate.complete
    /\ run["p1"].result.credentials # run["p2"].result.credentials
    /\ userCredentials["u1"] = run["p2"].result.credentials
    /\ userCredentials["u1"] # run["p1"].result.credentials

\* The response carries a result and nothing that is handled before it.
CarriesResult(resp) == resp.ok /\ ~resp.error /\ resp.result

\* The status member is a number greater than or equal to 400.
ErrorStatus(st) == st \in {"n400", "n403"}

\* C20: placeOrder never resolves when the 2xx response carries a result
\* whose status is a number >= 400: it rejects with 'Order rejected by
\* Polymarket'; a result whose status is a string, or a number below 400, is
\* returned as it is.
C20_NumericErrorStatusRejected ==
    \A p \in Procs : (Ordering(p) /\ Settled(p)) =>
       \A resp \in run[p].hResp :
          /\ (resp.ok /\ resp.result /\ ErrorStatus(resp.status)) => Failed(p)
          /\ CarriesResult(resp) =>
                IF ErrorStatus(resp.status)
                THEN /\ Failed(p)
                     /\ run[p].result.error.msg = "Order rejected by Polymarket"
                ELSE /\ Succeeded(p)
                     /\ run[p].result.kind = "orderResult"
                     /\ run[p].result.orderStatus = resp.status

C20_Witness ==
    \E p \in Procs :
       /\ Ordering(p) /\ Failed(p)
       /\ run[p].result.error.msg = "Order rejected by Polymarket"
       /\ \E resp \in run[p].hResp : CarriesResult(resp) /\ resp.status = "n400"

\* C21: placeOrder classifies the backend's response in a fixed precedence:
\* a non-2xx response is a transport error carrying the HTTP status and body,
\* whatever members the body has; a 2xx response with an error member is an
\* application error carrying the error code, even when a result is present
\* too; a 2xx response with neither is the empty-result error; only otherwise
\* is the result looked at.
C21_ResponsePrecedence ==
    \A p \in Procs : (Ordering(p) /\ Settled(p)) =>
       \A resp \in run[p].hResp :
          LET e == run[p].result.error IN
          /\ ~resp.ok =>
                /\ Failed(p)
                /\ e = Err("Server request failed", "http status and body")
          /\ (resp.ok /\ resp.error) =>
                /\ Failed(p)
                /\ e = Err("Order placement failed", "error code")
          /\ (resp.ok /\ ~resp.error /\ ~resp.result) =>
                /\ Failed(p)
                /\ e = Err("Server returned empty result", "")
          /\ CarriesResult(resp) =>
                \/ Succeeded(p) /\ run[p].result.orderStatus = resp.status
                \/ Failed(p) /\ e = Err("Order rejected by Polymarket", resp.status)

C21_Witness ==
    \E p \in Procs :
       /\ Ordering(p) /\ Failed(p)
       /\ run[p].result.error.msg = "Order placement failed"
       /\ \E resp \in run[p].hResp : resp.ok /\ resp.error /\ resp.result

Cancelling(p) == run[p].op = "cancelOrder"
Claiming(p) == run[p].op = "claimWinnings"

\* C22 as stated: cancelOrder raises 'Server returned unsuccessful
\* cancellation' whenever the 2xx response has neither an error nor a message
\* field and its success flag is false or absent, and returns the response
\* only when success is truthy and no error or message field is present.
C22_ReturnsOnlyWithoutErrorFields ==
    \A p \in Procs : (Cancelling(p) /\ Settled(p)) =>
       \A resp \in run[p].hResp :
          /\ (resp.ok /\ resp.error = Absent /\ resp.message = Absent
                /\ resp.success \in {Absent, "false"}) =>
                /\ Failed(p)
                /\ run[p].result.error = Err("Server returned unsuccessful cancellation", "")
          /\ Succeeded(p) =>
                /\ resp.ok /\ resp.success = "true"
                /\ resp.error = Absent /\ resp.message = Absent

\* C22: cancelOrder raises 'Server returned unsuccessful cancellation' exactly
\* when the 2xx response has no non-empty error and no non-empty message and
\* its success flag is false or absent; it returns the response exactly when
\* success is true and error and message are each absent or empty.
C22_UnsuccessfulCancellation ==
    \A p \in Procs : (Cancelling(p) /\ Settled(p)) =>
       \A resp \in run[p].hResp :
          LET silent == /\ resp.error \in {Absent, ""}
                        /\ resp.message \in {Absent, ""}
              unsuccessful ==
                 /\ Failed(p)
                 /\ run[p].result.error = Err("Server returned unsuccessful cancellation", "")
          IN /\ unsuccessful <=> (resp.ok /\ silent /\ resp.success \in {Absent, "false"})
             /\ Succeeded(p) <=> (resp.ok /\ silent /\ resp.success = "true")
             /\ Succeeded(p) => run[p].result.kind = "cancelResult"

C22_Witness ==
    \E p \in Procs :
       /\ Cancelling(p) /\ Failed(p)
       /\ run[p].result.error.msg = "Server returned unsuccessful cancellation"
       /\ \E resp \in run[p].hResp :
             resp.ok /\ resp.error = Absent /\ resp.message = Absent
             /\ resp.success = "false"

\* The backend's 2xx response to this run has an error or a message member.
HasErrorOrMessage(p, resp) ==
    IF Ordering(p) THEN resp.error \/ resp.message
    ELSE resp.error # Absent \/ resp.message # Absent

\* C23 as stated: for placeOrder, cancelOrder and claimWinnings a 2xx response
\* that contains an error field or a message field is never reported as a
\* success, whatever its success flag or result.
C23_ErrorOrMessageNeverSuccess ==
    \A p \in Procs : (Calling(p) /\ ~Linking(p) /\ Settled(p)) =>
       \A resp \in run[p].hResp :
          (resp.ok /\ HasErrorOrMessage(p, resp)) => Failed(p)

\* C23: a 2xx response is reported as an application error and never as a
\* success, whatever its success flag or result, when it has an error member
\* (placeOrder), or a non-empty error or a non-empty message (cancelOrder,
\* claimWinnings). placeOrder does not look at a message member; cancelOrder
\* and claimWinnings take an empty error or message for none.
C23_ApplicationError ==
    \A p \in Procs : (Calling(p) /\ ~Linking(p) /\ Settled(p)) =>
       \A resp \in run[p].hResp :
          LET e == run[p].result.error IN
          /\ (Ordering(p) /\ resp.ok /\ resp.error) =>
                Failed(p) /\ e = Err("Order placement failed", "error code")
          /\ (Ordering(p) /\ resp.ok /\ ~resp.error) =>
                (Failed(p) <=> (~resp.result \/ ErrorStatus(resp.status)))
          /\ (~Ordering(p) /\ resp.ok
                /\ (TruthyMember(resp.error) \/ TruthyMember(resp.message))) =>
                /\ Failed(p)
                /\ e.msg = IF Cancelling(p) THEN "Order cancellation failed"
                                             ELSE "Claim winnings failed"
                /\ e.cause = IF TruthyMember(resp.error) THEN resp.error
                                                          ELSE resp.message
          /\ (~Ordering(p) /\ resp.ok
                /\ ~TruthyMember(resp.error) /\ ~TruthyMember(resp.message)) =>
                (Failed(p) <=> resp.success # "true")

C23_Witness ==
    \E p \in Procs :
       /\ Claiming(p) /\ Failed(p)
       /\ run[p].result.error = Err("Claim winnings failed", "text")
       /\ \E resp \in run[p].hResp :
             resp.ok /\ resp.error = Absent /\ resp.message = "text"
             /\ resp.success = "true"

\* The request of a claimWinnings run carries exactly one of the two flows,
\* the one its walletType selects.
ExactlyOneFlow(req) ==
    \/ /\ req.walletType = "eoa" /\ req.signedRedeemTx # Absent
       /\ req.privyWalletId = Absent /\ req.conditionId = Absent
       /\ req.outcomeIndex = Absent
    \/ /\ req.walletType = "privy" /\ req.signedRedeemTx = Absent
       /\ req.privyWalletId # Absent /\ req.conditionId # Absent
       /\ req.outcomeIndex # Absent

\* C24: claimWinnings sends an HTTP request only when exactly one of
\* signedRedeemTx and the Privy-delegation members (privyWalletId,
\* conditionId, outcomeIndex) is supplied and it matches walletType; a call
\* supplying both, or neither, is rejected before any request is sent.
C24_ClaimFlowExclusive ==
    \A p \in Procs : (Claiming(p) /\ Invoked(run[p], "fetch")) =>
       \A req \in run[p].claimRequest : ExactlyOneFlow(req)

\* The three operations that go through the Dome backend.
BackendCall(r) == r.op \in {"placeOrder", "cancelOrder", "claimWinnings"}

\* The configuration error each of them raises without an API key.
ApiKeyError(op) ==
    CASE op = "placeOrder" -> Err("Dome API key not set", "")
      [] op = "cancelOrder" -> Err("Dome API key required for cancelOrder", "")
      [] op = "claimWinnings" -> Err("Dome API key required for claimWinnings", "")

C25_NoKeyNoCall ==
    \A p \in Procs : (BackendCall(run[p]) /\ ~apiKey) =>
       /\ Failed(p)
       /\ run[p].result.error = ApiKeyError(run[p].op)
       /\ run[p].calls = <<>>
       /\ run[p].hSigns = <<>>
       /\ ~run[p].signedOrder.signed
       /\ run[p].hResp = {}

\* C25: on a router constructed without an apiKey, placeOrder, cancelOrder
\* and claimWinnings each fail with a configuration error before any signer
\* call, any order signing and any HTTP request, and leave the credential
\* store and the Safe-address store unchanged.
C25_NoApiKeyFailsFirst ==
    /\ [] C25_NoKeyNoCall
    /\ [][(\E p \in Procs : BackendCall(run'[p]) /\ run'[p] # run[p]) =>
            /\ userCredentials' = userCredentials
            /\ userSafeAddresses' = userSafeAddresses]_vars

C25_Witness ==
    \E p \in Procs :
       /\ ~apiKey /\ Cancelling(p) /\ Failed(p)
       /\ run[p].result.error.msg = "Dome API key required for cancelOrder"
       /\ run[p].calls = <<>>
       /\ "u1" \in DOMAIN userCredentials

\* placeOrder is called in this step by promise p.
PlaceOrderStarts(p) == run[p].pc = "idle" /\ run'[p].op = "placeOrder"

\* No signer can be obtained from the parameters of the call: neither a
\* signer nor both privyWalletId and walletAddress are given, or the Privy
\* members are given and the router has no Privy client.
NoSigner(r) ==
    /\ ~Truthy(r.signer)
    /\ ~(r.privyWalletId /\ Truthy(r.walletAddress)) \/ ~privyClient

\* No credentials are passed and none are stored for the user.
NoCreds(r) == ~r.credentialsArg /\ r.userId \notin DOMAIN userCredentials

SignerErrors ==
    { Err("Privy not configured", ""),
      Err("Either provide a signer or Privy wallet info", "") }

\* C26: placeOrder fails before any signer call, order signing or HTTP
\* request when no signer can be obtained or when credentials are neither
\* passed nor stored for the userId; the checks are made in the order API key,
\* signer, credentials, and a call that passes all three goes on to ask the
\* signer for its address.
C26_ChecksBeforeFirstCall ==
    [][\A p \in Procs : PlaceOrderStarts(p) =>
         LET r == run'[p]
             failsWith(E) == /\ r.pc = "done" /\ r.result.kind = "error"
                             /\ r.result.error \in E
                             /\ r.calls = <<>> /\ r.hSigns = <<>>
                             /\ ~r.signedOrder.signed /\ r.hResp = {}
         IN IF ~apiKey THEN failsWith({ApiKeyError("placeOrder")})
            ELSE IF NoSigner(r) THEN failsWith(SignerErrors)
            ELSE IF NoCreds(r) THEN failsWith({Err("No credentials found for user", "")})
            ELSE r.pc = "getAddress" /\ r.calls = <<"getAddress">>]_vars

C26_Witness ==
    \E p \in Procs :
       /\ Ordering(p) /\ Failed(p) /\ apiKey
       /\ run[p].result.error.msg = "Either provide a signer or Privy wallet info"
       /\ NoCreds(run[p])
       /\ run[p].calls = <<>>

\* 10^12 raw units, and the values next to it.
Threshold == <<1, 0, 0>>
AtLeast(a, b) == a = b \/ GreaterThan(a, b)

\* The allowance of the contract at index i is read in this step.
ReadsAllowance(i) ==
    /\ escrow.pc = "allowance" /\ escrow.i = i
    /\ escrow.contracts[i].name \in DOMAIN escrow'.results

\* C27 as stated: hasAllowance is true exactly when the raw allowance is at
\* or above the threshold of 10^12 raw units.
C27_SufficientAtOrAboveThreshold ==
    \A name \in DOMAIN escrow.results :
       escrow.results[name].hasAllowance
          <=> AtLeast(escrow.results[name].allowance, Threshold)

C27_SufficientAboveThreshold ==
    \A name \in DOMAIN escrow.results :
       LET a == escrow.results[name] IN
       /\ a.hasAllowance <=> GreaterThan(a.allowance, Threshold)
       /\ a.allowance \in {<<0>>, <<999999, 999999>>, Threshold} => ~a.hasAllowance
       /\ a.allowance \in {<<1, 0, 1>>, MaxUint256} => a.hasAllowance

\* C27: checkAllowances reports hasAllowance = true for a spender exactly
\* when its raw allowance is strictly above the threshold of 10^12 raw units,
\* and false for the threshold itself and every value below it; the raw
\* allowance read from the chain is returned alongside the boolean.
C27_AllowanceThreshold ==
    /\ [] C27_SufficientAboveThreshold
    /\ [][\A i \in 1..Len(escrow.contracts) : ReadsAllowance(i) =>
            LET c == escrow.contracts[i] IN
            escrow'.results[c.name].allowance = usdcAllowance[c.address]]_vars
    /\ [](escrow.result.kind = "allowances" =>
            /\ escrow.result.allowances = escrow.results
            /\ DOMAIN escrow.results = {escrow.contracts[i].name : i \in 1..Len(escrow.contracts)})

C27_Witness ==
    /\ escrow.op = "checkAllowances" /\ escrow.result.kind = "allowances"
    /\ escrow.result.allowances["Fee Escrow"] = [hasAllowance |-> FALSE, allowance |-> Threshold]
    /\ escrow.result.allowances["CTF Exchange"] = [hasAllowance |-> TRUE, allowance |-> <<1, 0, 1>>]

Approving == escrow.op = "approveEscrow"
Range(seq) == {seq[n] : n \in 1..Len(seq)}
NoDuplicates(seq) == \A m, n \in 1..Len(seq) : m # n => seq[m] # seq[n]
Considered == {escrow.contracts[n].name : n \in 1..Len(escrow.contracts)}

\* C28: when approveEscrow succeeds, approved and alreadyApproved are
\* disjoint and together are exactly the contracts considered; alreadyApproved
\* holds exactly those found with sufficient allowance by the initial check,
\* and no transaction was sent for them; approved holds exactly those found
\* without; txHashes has exactly one entry per approved contract; when none
\* lacked allowance no transaction is sent at all.
C28_ApprovedPartition ==
    (Approving /\ escrow.result.kind = "approveResult") =>
       LET res == escrow.result
           approved == Range(res.approved)
           already == Range(res.alreadyApproved)
           sentTo == {usdcTxs[escrow.hSent[n]].data.spender : n \in 1..Len(escrow.hSent)}
       IN /\ approved \cap already = {}
          /\ approved \cup already = Considered
          /\ NoDuplicates(res.approved) /\ NoDuplicates(res.alreadyApproved)
          /\ already = {name \in Considered : escrow.results[name].hasAllowance}
          /\ approved = {name \in Considered : ~escrow.results[name].hasAllowance}
          /\ DOMAIN res.txHashes = approved
          /\ Len(escrow.hSent) = Cardinality(approved)
          /\ \A n \in 1..Len(escrow.hSent) :
                \E m \in 1..Len(escrow.contracts) :
                   /\ escrow.contracts[m].name \in approved
                   /\ escrow.contracts[m].address = usdcTxs[escrow.hSent[n]].data.spender
                   /\ res.txHashes[escrow.contracts[m].name] = escrow.hSent[n]
          /\ approved = {} => escrow.hSent = <<>>

C28_Witness ==
    /\ Approving /\ escrow.result.kind = "approveResult"
    /\ escrow.result.approved = <<"Fee Escrow", "Neg Risk Adapter">>
    /\ escrow.result.alreadyApproved = <<"CTF Exchange", "Neg Risk CTF Exchange">>
    /\ escrow.results["Fee Escrow"].allowance = <<999999, 999999>>

\* approveEscrow has failed inside its approval loop, at entry k.
FailedAtApproval == Approving /\ escrow.pc = "done" /\ escrow.result.kind = "error" /\ escrow.k >= 1

\* The pending call rejects in this step.
EscrowFails == Approving /\ escrow.pc # "done" /\ escrow'.pc = "done" /\ escrow'.result.kind = "error"

C29_NothingSentAfterFailure ==
    Approving =>
       /\ \A n \in 1..Len(escrow.hSent) :
             /\ usdcTxs[escrow.hSent[n]].data.spender = escrow.needsApproval[n].address
             /\ usdcTxs[escrow.hSent[n]].status = "reverted" =>
                   n = Len(escrow.hSent) /\ FailedAtApproval /\ escrow.k = n
             /\ n < Len(escrow.hSent) => usdcTxs[escrow.hSent[n]].status = "success"
       /\ FailedAtApproval =>
             /\ Len(escrow.hSent) \in {escrow.k - 1, escrow.k}
             /\ escrow.approved = [n \in 1..(escrow.k - 1) |-> escrow.needsApproval[n].name]
             /\ \A n \in 1..(escrow.k - 1) : usdcTxs[escrow.hSent[n]].status = "success"

\* C29: approveEscrow fails fast: when the approval transaction for the k-th
\* contract needing approval fails to send, fails to confirm or confirms with
\* a non-success status, the call fails, no approval transaction is sent for
\* any later contract, and the k-1 approvals confirmed earlier in the call
\* remain in effect.
C29_FailFast ==
    /\ [] C29_NothingSentAfterFailure
    /\ [][EscrowFails =>
            /\ \A n \in 1..(escrow.k - 1) :
                  /\ usdcTxs'[escrow.hSent[n]] = usdcTxs[escrow.hSent[n]]
                  /\ usdcAllowance'[escrow.needsApproval[n].address]
                        = usdcAllowance[escrow.needsApproval[n].address]
            /\ Len(usdcTxs') = Len(usdcTxs)]_vars
    /\ [][(escrow.pc = "done" /\ Approving) => usdcTxs' = usdcTxs]_vars

C29_Witness ==
    /\ FailedAtApproval /\ escrow.k = 2 /\ Len(escrow.needsApproval) = 4
    /\ escrow.result.error = Err("Approval transaction failed", "CTF Exchange")
    /\ usdcTxs[escrow.hSent[2]].status = "reverted"
    /\ escrow.approved = <<"Fee Escrow">>
    /\ usdcAllowance["feeEscrow"] = MaxUint256
    /\ usdcAllowance["negRiskAdapter"] = <<0>>

\* A transaction is submitted in this step.
Submits == Len(usdcTxs') = Len(usdcTxs) + 1

C30_OnePendingAtATime ==
    Approving =>
       \A n \in 1..Len(escrow.hSent) :
          LET tx == usdcTxs[escrow.hSent[n]] IN
          /\ tx.to = USDC_POLYGON
          /\ tx.data.fn = "approve"
          /\ tx.data.amount = MaxUint256
          /\ tx.data.spender = escrow.needsApproval[n].address
          /\ n < Len(escrow.hSent) => tx.status = "success"

\* C30: approveEscrow submits approval transactions strictly one at a time:
\* the transaction for the next contract is never submitted before the
\* previous contract's transaction has been confirmed on chain with success
\* status, and each approval is for the unlimited (maximum uint256) amount.
C30_SequentialUnlimitedApprovals ==
    /\ [] C30_OnePendingAtATime
    /\ [][Submits =>
            /\ Approving /\ escrow.pc = "sendTransaction"
            /\ \A n \in 1..Len(escrow.hSent) :
                  /\ usdcTxs[escrow.hSent[n]].status = "success"
                  /\ usdcAllowance[escrow.needsApproval[n].address] = MaxUint256
                        \/ envChanges > 0
            /\ escrow.approved = [n \in 1..Len(escrow.hSent) |-> escrow.needsApproval[n].name]
            /\ usdcTxs'[Len(usdcTxs')].data = [fn |-> "approve",
                   spender |-> escrow.needsApproval[Len(escrow.hSent) + 1].address,
                   amount |-> MaxUint256]]_vars

C30_Witness ==
    /\ Approving /\ escrow.pc = "waitForTransaction"
    /\ Len(escrow.hSent) = 3
    /\ usdcTxs[escrow.hSent[1]].status = "success"
    /\ usdcTxs[escrow.hSent[2]].status = "success"
    /\ usdcTxs[escrow.hSent[3]].status = "pending"
    /\ usdcTxs[escrow.hSent[3]].data.amount = MaxUint256

\* The pending call works on the contracts of an earlier successful
\* approveEscrow, and nobody else has changed an allowance since that call
\* began.
Repeats ==
    /\ escrow.pc # "idle" /\ escrow.hClean
    /\ escrow.hPrev.valid /\ escrow.hPrev.contracts = escrow.contracts

\* C31: approveEscrow is idempotent: after a successful call, a second call
\* with the same options and no allowance change by anybody else sends no
\* transaction and, when its allowance reads succeed, reports every contract
\* in alreadyApproved with approved empty; hasRequiredApprovals for the same
\* wallet and contract set answers true.
C31_ApproveEscrowIdempotent ==
    Repeats =>
       /\ escrow.hSent = <<>>
       /\ escrow.pc \notin {"sendTransaction", "waitForTransaction"}
       /\ \A name \in DOMAIN escrow.results : escrow.results[name].hasAllowance
       /\ (Approving /\ escrow.pc = "done" /\ escrow.result.kind # "error") =>
             /\ escrow.result.kind = "approveResult"
             /\ escrow.result.approved = <<>>
             /\ Range(escrow.result.alreadyApproved) = Considered
             /\ escrow.result.txHashes = EmptyMap
       /\ (escrow.op = "hasRequiredApprovals" /\ escrow.pc = "done"
             /\ escrow.result.kind # "error") =>
             /\ escrow.result.kind = "boolean"
             /\ escrow.result.value

C31_Witness ==
    /\ Repeats /\ Approving /\ escrow.pc = "done"
    /\ escrow.contracts = ALL_CONTRACTS_TO_APPROVE
    /\ escrow.result.kind = "approveResult"
    /\ Len(escrow.result.alreadyApproved) = 4
    /\ Len(usdcTxs) >= 2

\* placeOrder run p sends its request in this step.
Submitting(p) == IsOrder(p, "createOrder") /\ run'[p].pc = "fetch"

\* C32: every placeOrder call that reaches submission draws a new client
\* order identifier for that attempt, different from the identifier of every
\* earlier attempt (a retry of the same order included), and uses that value
\* both as the request id and as params.clientOrderId.
C32_FreshClientOrderId ==
    [][\A p \in Procs : Submitting(p) =>
         LET req == run'[p].request IN
         /\ req.id = req.clientOrderId
         /\ req.id \notin 1..uuids
         /\ uuids' = uuids + 1
         /\ req.id \in 1..uuids']_vars

C32_Witness ==
    \E p \in Procs :
       /\ Ordering(p) /\ run[p].pc = "fetch"
       /\ uuids = 3
       /\ run[p].request.id = 3 /\ run[p].request.clientOrderId = 3

\* ------------------------------------------------------------------ C33
\* The upper-case form of a side.
UpperCase(side) ==
    CASE side \in {"buy", "Buy", "BUY"} -> "BUY"
      [] side \in {"sell", "Sell", "SELL"} -> "SELL"
      [] OTHER -> side

\* C33: a signed order carries the upper-case form of the caller's side
\* ('buy' in any letter case is BUY, 'sell' is SELL); the submitted payload
\* carries the same side, and every other field of the payload is the signed
\* order's.
C33_SideNormalizedOnce ==
    \A p \in Procs :
       (Ordering(p) /\ run[p].signedOrder.signed) =>
          /\ run[p].signedOrder.side = UpperCase(run[p].side)
          /\ run[p].signedOrder.side \in {"BUY", "SELL"}
          /\ run[p].request.signedOrder.side = run[p].signedOrder.side
          /\ run[p].request.signedOrder = run[p].signedOrder

C33_Witness ==
    \E p \in Procs :
       /\ Ordering(p) /\ run[p].pc = "fetch"
       /\ run[p].side = "buy"
       /\ run[p].signedOrder.signed
       /\ run[p].request.signedOrder.side = "BUY"

\* ------------------------------------------------------------------ C34
\* The credential-store entry of user u differs after the step.
EntryChanges(u) ==
    \/ (u \in DOMAIN userCredentials) # (u \in DOMAIN userCredentials')
    \/ /\ u \in DOMAIN userCredentials /\ u \in DOMAIN userCredentials'
       /\ userCredentials'[u] # userCredentials[u]

\* A linkUser for user u resolves in this step.
LinkSucceeds(u) ==
    \E p \in Procs : Linking(p) /\ run[p].userId = u /\ Completing(p)

\* The step is setCredentials(u, ...).
SetsCredentials(u) == \E c \in CredentialInputs : setCredentials(u, c)

\* C34: a user's credential-store entry changes only in the step in which a
\* linkUser for that user resolves or in a setCredentials for that user; no
\* step of placeOrder, cancelOrder, claimWinnings, of an allowance check or
\* set, of a failing linkUser or of another user's linkUser changes it; no
\* step removes an entry, and isUserLinked(userId), once true, stays true.
C34_CredentialStoreFrame ==
    [][\A u \in Users :
         /\ EntryChanges(u) => (LinkSucceeds(u) \/ SetsCredentials(u))
         /\ isUserLinked(u) => isUserLinked(u)']_vars

\* u1 is linked by hand; u2 has linked since, an order of u1 has failed, and
\* u1's entry is still the one set by hand.
C34_Witness ==
    /\ started = 3
    /\ "u2" \in DOMAIN userCredentials
    /\ isUserLinked("u1")
    /\ userCredentials["u1"] \in CredentialInputs
    /\ userCredentials["u2"] \notin CredentialInputs
    /\ \E p \in Procs : Ordering(p) /\ Settled(p)

\* ------------------------------------------------------------------ C35
\* The step of the link flow at which a run stopped: that of its last call.
FailedStep(r) ==
    LET last == r.calls[Len(r.calls)]
    IN CASE last = "getAddress" -> "address resolution"
         [] last = "isSafeDeployed" -> "deployment check"
         [] last = "deploySafe" -> "deployment"
         [] last \in {"checkSafeAllowances", "checkPrivyWalletAllowances"} -> "allowance check"
         [] last \in {"setSafeUsdcApproval", "setPrivyWalletAllowances"} -> "allowance setting"
         [] last \in {"deriveApiKey", "createApiKey"} -> "credentials"

\* The step an error names.  A provider error is read as the deployment
\* check's and a relayer error as the deployment's; read as the allowance
\* steps' instead, they would misname the deployment steps.
StepNamed(e) ==
    CASE e.msg = "getAddress rejected" -> "address resolution"
      [] e.msg = "Safe not deployed" -> "deployment check"
      [] e = ProviderError -> "deployment check"
      [] e = RelayerError -> "deployment"
      [] e.msg = "checkPrivyWalletAllowances failed" -> "allowance check"
      [] e.msg = "setPrivyWalletAllowances failed" -> "allowance setting"
      [] e.msg = "Failed to obtain Polymarket API credentials" -> "credentials"
      [] OTHER -> "none"

\* C35 (as claimed): the error of a failed linkUser identifies the step of
\* the link flow that failed.
C35_ErrorNamesFailedStep ==
    \A p \in Procs :
       (Linking(p) /\ Failed(p)) =>
          StepNamed(run[p].result.error) = FailedStep(run[p])

C38_OrderUsesStoredSafe ==
    \A p \in Procs :
       (/\ Ordering(p) /\ run[p].walletType = "safe"
        /\ run[p].funderAddress = "" /\ run[p].signedOrder.signed) =>
          /\ getSafeAddress(run[p].userId).defined
          /\ run[p].signedOrder.maker = getSafeAddress(run[p].userId).value

\* C38: no step of a linkUser with direct (EOA) topology changes the
\* Safe-address store, so after a 'safe' link and an 'eoa' re-link of the
\* same userId getSafeAddress(userId) still answers the Safe address of the
\* earlier link; a later placeOrder with walletType 'safe' and no
\* funderAddress uses that address as funder.
C38_EoaLinkKeepsSafeAddress ==
    /\ [] C38_OrderUsesStoredSafe
    /\ [][\A p \in Procs :
            (Linking(p) /\ ~IsSafeLink(run[p]) /\ run'[p] # run[p]) =>
               /\ userSafeAddresses' = userSafeAddresses
               /\ \A u \in Users : getSafeAddress(u)' = getSafeAddress(u)]_vars

\* An EOA link of a user has resolved while the Safe address of the user's
\* earlier 'safe' link is still stored.
C38_Witness ==
    \E p \in Procs :
       /\ Linking(p) /\ ~IsSafeLink(run[p]) /\ Succeeded(p)
       /\ getSafeAddress(run[p].userId).defined
       /\ getSafeAddress(run[p].userId).value = deriveSafeAddress(run[p].signer)
       /\ userCredentials[run[p].userId] = run[p].result.credentials

\* ------------------------------------------------------------------ C39
\* a >= b on base-10^6 values
AtLeastWei(a, b) == a = b \/ GreaterThan(a, b)
ThirtyGwei == <<30000, 0>>

\* signRedeemPositionsTx has the populated transaction in hand (it is being
\* signed, or the signed transaction has been returned).
Populated ==
    /\ redeem.op = "signRedeemPositionsTx"
    /\ \/ redeem.pc = "signTransaction"
       \/ redeem.pc = "done" /\ redeem.result.kind = "signedTx"

\* The tip populateTransaction returned is below the floor on Polygon.
TipRaised ==
    /\ redeem.params.chainId = 137
    /\ redeem.hPopulated.maxPriorityFeePerGas.has
    /\ GreaterThan(ThirtyGwei, redeem.hPopulated.maxPriorityFeePerGas.v)

\* C39: of a transaction populated for chain id 137 with a
\* maxPriorityFeePerGas, the tip that is signed is at least 30 gwei, and when
\* the tip was raised the maxFeePerGas that is signed is at least the tip; a
\* tip already at or above 30 gwei, a transaction without a tip, and every
\* transaction for another chain id is signed with the gas fields as
\* populated.
C39_PolygonTipFloor ==
    Populated =>
       /\ (redeem.params.chainId = 137 /\ redeem.hPopulated.maxPriorityFeePerGas.has) =>
             /\ redeem.gas.maxPriorityFeePerGas.has
             /\ AtLeastWei(redeem.gas.maxPriorityFeePerGas.v, ThirtyGwei)
       /\ TipRaised =>
             /\ redeem.gas.maxPriorityFeePerGas = Gas(ThirtyGwei)
             /\ redeem.gas.maxFeePerGas.has
             /\ AtLeastWei(redeem.gas.maxFeePerGas.v, redeem.gas.maxPriorityFeePerGas.v)
             /\ AtLeastWei(redeem.hPopulated.maxFeePerGas.v, ThirtyGwei) =>
                   redeem.gas.maxFeePerGas = redeem.hPopulated.maxFeePerGas
       /\ ~TipRaised => redeem.gas = redeem.hPopulated
       /\ redeem.pc = "done" => redeem.result.gas = redeem.gas

\* A Polygon transaction populated with a tip of 29.999999999 gwei and no
\* maxFeePerGas has been signed with both at 30 gwei.
C39_Witness ==
    /\ Populated /\ redeem.pc = "done"
    /\ redeem.params.chainId = 137
    /\ redeem.hPopulated.maxPriorityFeePerGas = Gas(<<29999, 999999>>)
    /\ ~redeem.hPopulated.maxFeePerGas.has
    /\ redeem.result.gas.maxPriorityFeePerGas = Gas(ThirtyGwei)
    /\ redeem.result.gas.maxFeePerGas = Gas(ThirtyGwei)

\* ------------------------------------------------------------------ C40
\* A redeemPositions transaction has been built (by buildRedeemPositionsTx
\* itself or inside signRedeemPositionsTx).
BuiltTx ==
    IF redeem.op = "buildRedeemPositionsTx" THEN {redeem.result.tx}
    ELSE IF redeem.op = "signRedeemPositionsTx"
            /\ redeem.pc \in {"populateTransaction", "signTransaction"}
         THEN {redeem.tx}
    ELSE IF redeem.op = "signRedeemPositionsTx" /\ redeem.result.kind = "signedTx"
         THEN {redeem.result.tx}
    ELSE {}

\* C40: the calldata is a redeemPositions call with the USDC collateral, the
\* zero parent collection id, the given conditionId and the single index set
\* 2^outcomeIndex (outcome 0 gives [1], outcome 1 gives [2]); the transaction
\* built around it goes to the CTF contract with value 0.
C40_RedeemsNamedOutcome ==
    \A tx \in BuiltTx :
       /\ tx.to = "ctf" /\ tx.value = 0
       /\ tx.data.fn = "redeemPositions"
       /\ tx.data.collateralToken = "usdcE"
       /\ tx.data.parentCollectionId = HashZero
       /\ tx.data.conditionId = redeem.params.conditionId
       /\ Len(tx.data.indexSets) = 1
       /\ tx.data.indexSets[1] = 2 ^ redeem.params.outcomeIndex
       /\ redeem.params.outcomeIndex = 0 => tx.data.indexSets = <<1>>
       /\ redeem.params.outcomeIndex = 1 => tx.data.indexSets = <<2>>

C40_Witness ==
    /\ redeem.op = "buildRedeemPositionsTx" /\ redeem.pc = "done"
    /\ redeem.params.conditionId = "c2" /\ redeem.params.outcomeIndex = 1
    /\ redeem.result.tx.data.indexSets = <<2>>
    /\ redeem.result.tx.data.conditionId = "c2"
    /\ redeem.result.tx.to = "ctf"

====
